---- MODULE Spec2Model ----
(***************************************************************************)
(* Order lifecycle and inventory ledger of the point-of-sale backend       *)
(* (app/services/orders.py, app/services/inventory.py and the routers that *)
(* wrap them in one transaction per request).                              *)
(*                                                                         *)
(* Representation.                                                         *)
(*  - Stock quantities are integers.  Every quantity that enters the       *)
(*    system (seed stock, recipe quantities, request quantities) is a      *)
(*    multiple of Unit, and EPSILON (1e-9 in the source) is one quantum,   *)
(*    strictly between 0 and Unit, as 1e-9 lies strictly between 0 and the *)
(*    smallest quantity of the catalogue.                                  *)
(*  - Money is an integer number of cents; round(x, 2) of a quotient is    *)
(*    Round2(num, den).                                                    *)
(*  - A database session is a record of tables.  A service function takes  *)
(*    the session and returns the session it leaves behind together with   *)
(*    the HTTP status it ends with; a router action commits the returned   *)
(*    session (db' = r.db) or rolls it back (db' = db).                    *)
(***************************************************************************)
EXTENDS Integers, Sequences, FiniteSets, TLC

VARIABLES
    db,        \* the committed database: menu_items, combo_rules, ingredients, orders,
               \* movements, shift_sessions, users
    clock,     \* datetime.now(timezone.utc), as a counter
    last,      \* the last request: operation, arguments, response, database before it,
               \* the audit row it committed and the events it broadcast
    combo_out, \* result of the last _build_combo_order_lines call (SpecCombo)
    limits,    \* the login limiters: _login_attempts of main.py and the
               \* _local_attempts and _last_local_cleanup of login_rate_limiter
    sessions   \* payOrder requests running side by side in their own database
               \* sessions: the engine's dialect, each session's position and
               \* what it holds, and the row locks taken (SpecRace)

vars == <<db, clock, last, combo_out, limits, sessions>>

(***************************************************************************)
(* Bounds of the model.                                                    *)
(***************************************************************************)
MaxOrders == 1
MaxQty == 2
MaxClock == 2
MaxMovements == 4
MaxManual == 1
MaxStock == 3
MaxNumbered == 3
MaxChoices == 2
MaxShifts == 2
MaxShiftOrders == 2
MaxLoginClock == 61
MaxRaceOrders == 2
LoginStep == 30

(***************************************************************************)
(* Program constants.                                                      *)
(***************************************************************************)
EPSILON == 1
max_retries == 5
NullTime == 0

Unit == 2 * EPSILON
None == "None"
NoRef == <<"", None>>

OrderStatus == {"pending", "preparing", "ready", "completed", "cancelled"}
PaymentMethod == {"cash", "line_pay"}
MovementType == {"purchase", "adjustment", "waste", "usage"}

(***************************************************************************)
(* Generic helpers.                                                        *)
(***************************************************************************)
RECURSIVE SumSeq(_)
SumSeq(s) == IF Len(s) = 0 THEN 0 ELSE Head(s) + SumSeq(Tail(s))

RECURSIVE SetToSortedSeq(_)
SetToSortedSeq(S) ==
    IF S = {} THEN <<>>
    ELSE LET m == CHOOSE x \in S : \A y \in S : x <= y
         IN <<m>> \o SetToSortedSeq(S \ {m})

Abs(x) == IF x < 0 THEN -x ELSE x

\* Python's round(num/den, 2) on an amount held in cents: the nearest integer
\* to num/den, an exact half going to the even neighbour.
Round2(num, den) ==
    LET q == num \div den
        r == num % den
    IN IF 2 * r < den THEN q
       ELSE IF 2 * r > den THEN q + 1
       ELSE IF q % 2 = 0 THEN q ELSE q + 1

(***************************************************************************)
(* Static configuration: the RecipeLine rows (created as in seed.py).       *)
(* RecipeQty(m, i) = 0 stands for "no RecipeLine row for (m, i)".          *)
(*   item 1: 1 unit of ingredient 1 and 2 units of ingredient 2            *)
(*   item 2: 1 unit of ingredient 1                                        *)
(***************************************************************************)
RecipeQty(m, i) ==
    CASE m = 1 /\ i = 1 -> Unit
      [] m = 1 /\ i = 2 -> 2 * Unit
      [] m = 2 /\ i = 1 -> Unit
      [] OTHER -> 0

(***************************************************************************)
(* app/services/inventory.py                                               *)
(***************************************************************************)
create_movement(d, ingredient_id, movement_type, quantity, reference) ==
    [d EXCEPT
        !.movements = Append(@, [ingredient_id |-> ingredient_id,
                                 movement_type |-> movement_type,
                                 quantity |-> quantity,
                                 reference |-> reference]),
        !.ingredients[ingredient_id].current_stock = @ + quantity]

\* TRUE when the projected stock is acceptable (the function returns), FALSE
\* when it raises 409.
_ensure_non_negative_stock(d, ingredient_id, delta) ==
    LET projected == d.ingredients[ingredient_id].current_stock + delta
    IN ~(projected < -EPSILON)

_get_low_stock_rows(d) ==
    {i \in DOMAIN d.ingredients :
        d.ingredients[i].current_stock <= d.ingredients[i].reorder_level}

\* lines: sequence of records with menu_item_id and quantity.  The result maps
\* every ingredient id to its required quantity; 0 stands for "no key".
RECURSIVE RequiredOf(_, _, _)
RequiredOf(d, lines, i) ==
    IF Len(lines) = 0 THEN 0
    ELSE LET line == Head(lines)
             here == IF line.menu_item_id \in DOMAIN d.menu_items
                     THEN RecipeQty(line.menu_item_id, i) * line.quantity
                     ELSE 0
         IN here + RequiredOf(d, Tail(lines), i)

\* The requirements with every line counted once, whatever its quantity.
_collect_requirements_counting_lines(d, lines) ==
    [i \in DOMAIN d.ingredients |->
        RequiredOf(d, [k \in 1..Len(lines) |-> [lines[k] EXCEPT !.quantity = 1]], i)]

_collect_requirements_for_lines(d, lines) ==
    [i \in DOMAIN d.ingredients |-> RequiredOf(d, lines, i)]

_collect_order_requirements(d, order) ==
    _collect_requirements_for_lines(d,
        [k \in 1..Len(order.items) |->
            [quantity |-> order.items[k].quantity,
             menu_item_id |-> order.items[k].menu_item_id]])

RequirementKeys(req) == {i \in DOMAIN req : req[i] > 0}

\* The shortages list (as the set of short ingredient ids); 409 when non-empty.
_validate_requirements(d, req) ==
    {i \in RequirementKeys(req) :
        d.ingredients[i].current_stock + EPSILON < req[i]}

\* One create_movement per ingredient of `ids` (a sequence), quantity qty[i].
RECURSIVE CreateMovements(_, _, _, _, _)
CreateMovements(d, ids, qty, movement_type, reference) ==
    IF Len(ids) = 0 THEN d
    ELSE CreateMovements(
            create_movement(d, Head(ids), movement_type, qty[Head(ids)], reference),
            Tail(ids), qty, movement_type, reference)

OrderRef(order) == <<"ORDER", order.order_number>>
CancelRef(order) == <<"CANCEL", order.order_number>>
AmendRef(order) == <<"AMEND", order.order_number>>

deduct_inventory_for_order(d, oid, now) ==
    LET order == d.orders[oid]
        req == _collect_order_requirements(d, order)
        shortages == _validate_requirements(d, req)
    IN IF order.inventory_deducted_at # NullTime
       THEN [db |-> d, status |-> 200, low_stock |-> _get_low_stock_rows(d)]
       ELSE IF shortages # {}
       THEN [db |-> d, status |-> 409, low_stock |-> shortages]
       ELSE LET d2 == CreateMovements(d, SetToSortedSeq(RequirementKeys(req)),
                                      [i \in DOMAIN req |-> -req[i]],
                                      "usage", OrderRef(order))
                d3 == [d2 EXCEPT !.orders[oid].inventory_deducted_at = now]
            IN [db |-> d3, status |-> 200, low_stock |-> _get_low_stock_rows(d3)]

\* The restock without its CANCEL:<number> idempotency guard.
restore_inventory_without_guard(d, oid) ==
    LET order == d.orders[oid]
        req == _collect_order_requirements(d, order)
    IN IF order.inventory_deducted_at = NullTime THEN d
       ELSE CreateMovements(d, SetToSortedSeq(RequirementKeys(req)), req,
                            "adjustment", CancelRef(order))

restore_inventory_for_cancelled_order(d, oid) ==
    LET order == d.orders[oid]
        restored_count == Cardinality({k \in 1..Len(d.movements) :
                                d.movements[k].reference = CancelRef(order)})
        req == _collect_order_requirements(d, order)
    IN IF order.inventory_deducted_at = NullTime THEN d
       ELSE IF restored_count > 0 THEN d
       ELSE CreateMovements(d, SetToSortedSeq(RequirementKeys(req)), req,
                            "adjustment", CancelRef(order))

\* The adjustment done as a full replay: the previous requirements are returned
\* and the next ones are taken again.
adjust_inventory_by_replay(d, oid, previous_items, next_items) ==
    LET order == d.orders[oid]
        previous_requirements == _collect_requirements_for_lines(d, previous_items)
        next_requirements == _collect_requirements_for_lines(d, next_items)
        returned == CreateMovements(d, SetToSortedSeq(RequirementKeys(previous_requirements)),
                                    previous_requirements, "adjustment", AmendRef(order))
        shortages == _validate_requirements(returned, next_requirements)
        taken == CreateMovements(returned,
                                 SetToSortedSeq(RequirementKeys(next_requirements)),
                                 [i \in DOMAIN next_requirements |-> -next_requirements[i]],
                                 "usage", AmendRef(order))
    IN IF order.inventory_deducted_at = NullTime
       THEN [db |-> d, status |-> 200, low_stock |-> _get_low_stock_rows(d)]
       ELSE IF shortages # {}
       THEN [db |-> d, status |-> 409, low_stock |-> shortages]
       ELSE [db |-> taken, status |-> 200, low_stock |-> _get_low_stock_rows(taken)]

\* The adjustment without the shortage check: every delta is applied.
adjust_inventory_without_validation(d, oid, previous_items, next_items) ==
    LET order == d.orders[oid]
        previous_requirements == _collect_requirements_for_lines(d, previous_items)
        next_requirements == _collect_requirements_for_lines(d, next_items)
        changed == {i \in DOMAIN d.ingredients :
                        next_requirements[i] # previous_requirements[i]}
        taken == CreateMovements(d, SetToSortedSeq(changed),
                                 [i \in DOMAIN d.ingredients |->
                                    previous_requirements[i] - next_requirements[i]],
                                 "usage", AmendRef(order))
    IN IF order.inventory_deducted_at = NullTime
       THEN [db |-> d, status |-> 200, low_stock |-> _get_low_stock_rows(d)]
       ELSE [db |-> taken, status |-> 200, low_stock |-> _get_low_stock_rows(taken)]

\* The adjustment validating the whole next requirement against the stock, as a
\* first deduction would.
adjust_inventory_validating_total(d, oid, previous_items, next_items) ==
    LET order == d.orders[oid]
        previous_requirements == _collect_requirements_for_lines(d, previous_items)
        next_requirements == _collect_requirements_for_lines(d, next_items)
        shortages == _validate_requirements(d, next_requirements)
        changed == {i \in DOMAIN d.ingredients :
                        next_requirements[i] # previous_requirements[i]}
        taken == CreateMovements(d, SetToSortedSeq(changed),
                                 [i \in DOMAIN d.ingredients |->
                                    previous_requirements[i] - next_requirements[i]],
                                 "usage", AmendRef(order))
    IN IF order.inventory_deducted_at = NullTime
       THEN [db |-> d, status |-> 200, low_stock |-> _get_low_stock_rows(d)]
       ELSE IF shortages # {}
       THEN [db |-> d, status |-> 409, low_stock |-> shortages]
       ELSE [db |-> taken, status |-> 200, low_stock |-> _get_low_stock_rows(taken)]

\* previous_items, next_items: sequences of records with menu_item_id, quantity.
adjust_inventory_for_amended_order(d, oid, previous_items, next_items) ==
    LET order == d.orders[oid]
        previous_requirements == _collect_requirements_for_lines(d, previous_items)
        next_requirements == _collect_requirements_for_lines(d, next_items)
        ingredient_ids == RequirementKeys(previous_requirements)
                            \cup RequirementKeys(next_requirements)
        delta == [i \in DOMAIN d.ingredients |->
                    next_requirements[i] - previous_requirements[i]]
        shortages == {i \in ingredient_ids :
                        /\ delta[i] > EPSILON
                        /\ d.ingredients[i].current_stock + EPSILON < delta[i]}
        grow == {i \in ingredient_ids : delta[i] > EPSILON}
        shrink == {i \in ingredient_ids : delta[i] < -EPSILON}
        RECURSIVE Emit(_, _)
        Emit(s, ids) ==
            IF Len(ids) = 0 THEN s
            ELSE LET i == Head(ids)
                     s2 == IF i \in grow
                           THEN create_movement(s, i, "usage", -delta[i], AmendRef(order))
                           ELSE IF i \in shrink
                           THEN create_movement(s, i, "adjustment", -delta[i], AmendRef(order))
                           ELSE s
                 IN Emit(s2, Tail(ids))
    IN IF order.inventory_deducted_at = NullTime
       THEN [db |-> d, status |-> 200, low_stock |-> _get_low_stock_rows(d)]
       ELSE IF shortages # {}
       THEN [db |-> d, status |-> 409, low_stock |-> shortages]
       ELSE LET d2 == Emit(d, SetToSortedSeq(ingredient_ids))
            IN [db |-> d2, status |-> 200, low_stock |-> _get_low_stock_rows(d2)]

\* apply_manual_movement without _ensure_non_negative_stock.
apply_manual_movement_unchecked(d, ingredient_id, movement_type, quantity) ==
    LET delta == CASE movement_type = "purchase" -> Abs(quantity)
                   [] movement_type = "waste" -> -Abs(quantity)
                   [] movement_type = "adjustment" -> quantity
                   [] OTHER -> 0
    IN IF ingredient_id \notin DOMAIN d.ingredients
       THEN [db |-> d, status |-> 404]
       ELSE IF movement_type \notin {"purchase", "waste", "adjustment"}
       THEN [db |-> d, status |-> 400]
       ELSE [db |-> create_movement(d, ingredient_id, movement_type, delta, NoRef),
             status |-> 201]

\* quantity > 0 is guaranteed by StockMovementCreate (schemas.py).
apply_manual_movement(d, ingredient_id, movement_type, quantity) ==
    LET delta == CASE movement_type = "purchase" -> Abs(quantity)
                   [] movement_type = "waste" -> -Abs(quantity)
                   [] movement_type = "adjustment" -> quantity
                   [] OTHER -> 0
    IN IF ingredient_id \notin DOMAIN d.ingredients
       THEN [db |-> d, status |-> 404]
       ELSE IF movement_type \notin {"purchase", "waste", "adjustment"}
       THEN [db |-> d, status |-> 400]
       ELSE IF ~_ensure_non_negative_stock(d, ingredient_id, delta)
       THEN [db |-> d, status |-> 409]
       ELSE [db |-> create_movement(d, ingredient_id, movement_type, delta, NoRef),
             status |-> 201]

(***************************************************************************)
(* app/services/orders.py                                                  *)
(***************************************************************************)
\* TRUE when the menu item exists and is active (otherwise the caller raises 400).
_load_active_menu_item(d, menu_item_id) ==
    /\ menu_item_id \in DOMAIN d.menu_items
    /\ d.menu_items[menu_item_id].is_active

\* weighted_keys: sequence of records [key, weight]; the result is the sequence
\* of allocated amounts, position k belonging to weighted_keys[k].key.
_allocate_weighted_line_totals(total_amount, weighted_keys) ==
    LET n == Len(weighted_keys)
        base_sum == SumSeq([k \in 1..n |-> weighted_keys[k].weight])
        share(k) == Round2(total_amount * weighted_keys[k].weight, base_sum)
        RECURSIVE Remaining(_)
        \* `remaining` after the first k keys of weighted_keys[:-1]
        Remaining(k) ==
            IF k = 0 THEN Round2(total_amount, 1)
            ELSE Round2(Remaining(k - 1) - share(k), 1)
    IN IF n = 0 THEN <<>>
       ELSE IF base_sum <= 0
       THEN [k \in 1..n |-> Round2(total_amount, n)]
       ELSE [k \in 1..n |-> IF k < n THEN share(k) ELSE Remaining(n - 1)]

RECURSIVE FirstOccurrences(_, _)
FirstOccurrences(s, seen) ==
    IF Len(s) = 0 THEN <<>>
    ELSE IF Head(s) \in seen THEN FirstOccurrences(Tail(s), seen)
    ELSE <<Head(s)>> \o FirstOccurrences(Tail(s), seen \cup {Head(s)})

Count(s, x) == Cardinality({k \in 1..Len(s) : s[k] = x})

ComboNote(code) == "[COMBO:" \o code \o "]"

\* combo_input: [combo_id, quantity, drink_item_ids, side_item_ids]
_build_combo_order_lines(d, combo_input) ==
    LET known == combo_input.combo_id \in DOMAIN d.combo_rules
        combo == d.combo_rules[combo_input.combo_id]
        drink_ids == combo_input.drink_item_ids
        side_ids == combo_input.side_item_ids
        invalid_drinks == {drink_ids[k] : k \in 1..Len(drink_ids)} \ combo.eligible_drinks
        component_ids == drink_ids \o side_ids
        component_set == {component_ids[k] : k \in 1..Len(component_ids)}
        missing == component_set \ DOMAIN d.menu_items
        inactive == {m \in component_set \cap DOMAIN d.menu_items : ~d.menu_items[m].is_active}
        keys == FirstOccurrences(component_ids, {})
        line_counts == [m \in component_set |-> Count(component_ids, m) * combo_input.quantity]
        weighted_keys == [k \in 1..Len(keys) |->
                            [weight |-> d.menu_items[keys[k]].price * line_counts[keys[k]],
                             key |-> keys[k]]]
        line_totals == _allocate_weighted_line_totals(
                            Round2(combo.bundle_price * combo_input.quantity, 1),
                            weighted_keys)
        lines == [k \in 1..Len(keys) |->
                    LET line_total == Round2(line_totals[k], 1)
                    IN [quantity |-> line_counts[keys[k]],
                        menu_item_id |-> keys[k],
                        line_total |-> line_total,
                        unit_price |-> Round2(line_total, line_counts[keys[k]]),
                        note |-> ComboNote(combo.code)]]
    IN IF ~known THEN [lines |-> <<>>, status |-> 400]
       ELSE IF ~combo.is_active THEN [lines |-> <<>>, status |-> 400]
       ELSE IF Len(drink_ids) # combo.drink_choice_count THEN [lines |-> <<>>, status |-> 400]
       ELSE IF Len(side_ids) # combo.side_choice_count THEN [lines |-> <<>>, status |-> 400]
       ELSE IF invalid_drinks # {} THEN [lines |-> <<>>, status |-> 400]
       ELSE IF Len(component_ids) = 0 THEN [lines |-> <<>>, status |-> 400]
       ELSE IF missing # {} THEN [lines |-> <<>>, status |-> 400]
       ELSE IF inactive # {} THEN [lines |-> <<>>, status |-> 400]
       ELSE [lines |-> lines, status |-> 200]

OrderNumbersInUse(d) == {d.orders[k].order_number : k \in 1..Len(d.orders)}

\* The allocation without the retry loop: a taken number fails the request.
_create_order_without_retry(d, numbers) ==
    IF numbers[1] \in OrderNumbersInUse(d)
    THEN [db |-> d, status |-> 503, order_id |-> 0, attempts |-> 1]
    ELSE [db |-> [d EXCEPT !.orders = Append(@,
                    [items |-> <<>>,
                     order_number |-> numbers[1],
                     inventory_deducted_at |-> NullTime,
                     status |-> "pending",
                     total_amount |-> 0,
                     payment_status |-> "unpaid",
                     payment_method |-> "cash",
                     paid_at |-> NullTime,
                     completed_at |-> NullTime])],
          status |-> 200, order_id |-> Len(d.orders) + 1, attempts |-> 1]

\* numbers[k] is what generate_order_number() returns on the k-th call of this
\* request.  db.flush() raises IntegrityError when the number is taken (the
\* unique index on orders.order_number); db.rollback() then drops the row.
_create_order_with_unique_number(d, numbers) ==
    LET free == {k \in 1..max_retries : numbers[k] \notin OrderNumbersInUse(d)}
        attempt == CHOOSE k \in free : \A j \in free : k <= j
        row == [items |-> <<>>,
                order_number |-> numbers[attempt],
                inventory_deducted_at |-> NullTime,
                status |-> "pending",
                total_amount |-> 0,
                payment_status |-> "unpaid",
                payment_method |-> "cash",
                paid_at |-> NullTime,
                completed_at |-> NullTime]
    IN IF free = {}
       THEN [db |-> d, status |-> 503, order_id |-> 0, attempts |-> max_retries]
       ELSE [db |-> [d EXCEPT !.orders = Append(@, row)], status |-> 200,
             order_id |-> Len(d.orders) + 1, attempts |-> attempt]

Strip(s) == CASE s = " " -> ""
              [] s = " x " -> "x"
              [] OTHER -> s

\* The note as it was sent, blank or not.
_normalize_note_keeping_blanks(note) == note

_normalize_note(note) ==
    IF note = None THEN None
    ELSE LET cleaned == Strip(note)
         IN IF cleaned # "" THEN cleaned ELSE None

\* Orders of Python's string comparison on the names and notes in use.
NameRank(d, menu_item_id) == d.menu_items[menu_item_id].name_rank

NoteRank(note) == CASE note = None -> 0
                    [] note = "x" -> 2
                    [] OTHER -> 1

LineKey(line) == <<line.menu_item_id, _normalize_note(line.note)>>

LineBefore(d, a, b) ==
    \/ NameRank(d, a.menu_item_id) < NameRank(d, b.menu_item_id)
    \/ /\ NameRank(d, a.menu_item_id) = NameRank(d, b.menu_item_id)
       /\ a.menu_item_id < b.menu_item_id
    \/ /\ a.menu_item_id = b.menu_item_id
       /\ NoteRank(a.note) < NoteRank(b.note)

RECURSIVE SortLines(_, _)
SortLines(d, S) ==
    IF S = {} THEN <<>>
    ELSE LET first == CHOOSE a \in S : \A b \in S \ {a} : LineBefore(d, a, b)
         IN <<first>> \o SortLines(d, S \ {first})

\* items: the request's items, records [menu_item_id, quantity, note].
_build_amended_lines(d, items) ==
    LET bad == {k \in 1..Len(items) : ~_load_active_menu_item(d, items[k].menu_item_id)}
        keys == {LineKey(items[k]) : k \in 1..Len(items)}
        aggregated == {[quantity |-> SumSeq([k \in 1..Len(items) |->
                                        IF LineKey(items[k]) = key
                                        THEN items[k].quantity ELSE 0]),
                        menu_item_id |-> key[1],
                        unit_price |-> d.menu_items[key[1]].price,
                        note |-> key[2]] : key \in keys}
    IN IF bad # {} THEN [lines |-> <<>>, status |-> 400]
       ELSE [lines |-> SortLines(d, aggregated), status |-> 200]

\* A snapshot maps each key (menu_item_id, normalized note) to its quantity.
_snapshot_order_items(items) ==
    LET keys == {LineKey(items[k]) : k \in 1..Len(items)}
    IN [key \in keys |-> SumSeq([k \in 1..Len(items) |->
                            IF LineKey(items[k]) = key THEN items[k].quantity ELSE 0])]

_snapshot_amended_lines(lines) ==
    LET keys == {LineKey(lines[k]) : k \in 1..Len(lines)}
    IN [key \in keys |->
            LET k == CHOOSE j \in 1..Len(lines) :
                        /\ LineKey(lines[j]) = key
                        /\ \A i \in 1..Len(lines) : LineKey(lines[i]) = key => i <= j
            IN lines[k].quantity]

_build_order_diff(before, after) ==
    [added |-> DOMAIN after \ DOMAIN before,
     removed |-> DOMAIN before \ DOMAIN after,
     quantity_changed |-> {key \in DOMAIN before \cap DOMAIN after :
                                before[key] # after[key]}]

EmptyDiff == [added |-> {}, removed |-> {}, quantity_changed |-> {}]

\* The replacement of the lines with the total left as it was.
_replace_order_items_keeping_total(d, oid, lines) ==
    [d EXCEPT !.orders[oid].items =
                [k \in 1..Len(lines) |->
                    [quantity |-> lines[k].quantity,
                     menu_item_id |-> lines[k].menu_item_id,
                     line_total |-> lines[k].unit_price * lines[k].quantity,
                     unit_price |-> lines[k].unit_price,
                     note |-> lines[k].note]]]

_replace_order_items(d, oid, lines) ==
    LET items == [k \in 1..Len(lines) |->
                    [quantity |-> lines[k].quantity,
                     menu_item_id |-> lines[k].menu_item_id,
                     line_total |-> lines[k].unit_price * lines[k].quantity,
                     unit_price |-> lines[k].unit_price,
                     note |-> lines[k].note]]
        total_amount == SumSeq([k \in 1..Len(items) |-> items[k].line_total])
    IN [d EXCEPT !.orders[oid].items = items,
                 !.orders[oid].total_amount = Round2(total_amount, 1)]

\* Payment without the early return for an order that is already paid.
pay_order_without_paid_check(d, oid, payment_method, now) ==
    deduct_inventory_for_order(
        [d EXCEPT
            !.orders[oid].payment_method =
                IF payment_method # None THEN payment_method ELSE @,
            !.orders[oid].payment_status = "paid",
            !.orders[oid].paid_at = now],
        oid, now)

\* pay_order without the early return for an order already paid.
pay_order_without_paid_guard(d, oid, payment_method, now) ==
    deduct_inventory_for_order(
        [d EXCEPT
            !.orders[oid].payment_method =
                IF payment_method # None THEN payment_method ELSE @,
            !.orders[oid].payment_status = "paid",
            !.orders[oid].paid_at = now],
        oid, now)

pay_order(d, oid, payment_method, now) ==
    LET order == d.orders[oid]
        d2 == [d EXCEPT
                !.orders[oid].payment_method =
                    IF payment_method # None THEN payment_method ELSE @,
                !.orders[oid].payment_status = "paid",
                !.orders[oid].paid_at = now]
    IN IF order.payment_status = "paid"
       THEN [db |-> d, status |-> 200, low_stock |-> {}]
       ELSE deduct_inventory_for_order(d2, oid, now)

\* The lines of the direct items: records ready to become OrderItem rows.
DirectLines(d, items) ==
    [k \in 1..Len(items) |->
        LET price == d.menu_items[items[k].menu_item_id].price
        IN [quantity |-> items[k].quantity,
            menu_item_id |-> items[k].menu_item_id,
            line_total |-> Round2(price * items[k].quantity, 1),
            unit_price |-> price,
            note |-> items[k].note]]

\* Extending the collected lines with one combo's lines; a failure is kept.
ExtendLines(acc, here) ==
    IF acc.status # 200 THEN acc
    ELSE IF here.status # 200 THEN here
    ELSE [lines |-> acc.lines \o here.lines, status |-> 200]

RECURSIVE ComboLines(_, _, _)
\* [status, lines] of extending `acc` with every combo in turn.
ComboLines(d, combos, acc) ==
    IF Len(combos) = 0 THEN acc
    ELSE ComboLines(d, Tail(combos),
                    ExtendLines(acc, _build_combo_order_lines(d, Head(combos))))

\* The lines of the request: [status, lines]; 400 for an unknown or inactive
\* item, a rejected combo, or no line at all.
OrderLines(d, payload) ==
    LET bad == {k \in 1..Len(payload.items) :
                    ~_load_active_menu_item(d, payload.items[k].menu_item_id)}
    IN IF bad # {} THEN [lines |-> <<>>, status |-> 400]
       ELSE ExtendLines(
                ComboLines(d, payload.combos,
                           [lines |-> DirectLines(d, payload.items), status |-> 200]),
                [lines |-> <<>>,
                 status |-> IF Len(payload.items) + Len(payload.combos) = 0
                            THEN 400 ELSE 200])

\* The OrderItem rows and the order's total.
AddOrderItems(d, oid, lines) ==
    [d EXCEPT !.orders[oid].items = lines,
              !.orders[oid].total_amount =
                    Round2(SumSeq([k \in 1..Len(lines) |-> lines[k].line_total]), 1)]

\* The auto_pay step.
PayIfAuto(d, oid, auto_pay, now) ==
    IF auto_pay THEN pay_order(d, oid, None, now)
    ELSE [db |-> d, status |-> 200, low_stock |-> {}]

\* payload: [auto_pay, payment_method, items, combos].  status 200: the function
\* returned; any other status is the HTTPException it raised.
create_order(d, payload, numbers, now) ==
    LET created == _create_order_with_unique_number(d, numbers)
        oid == created.order_id
        tag == [order_id |-> oid, attempts |-> created.attempts]
        built == OrderLines(d, payload)
    IN IF created.status # 200
       THEN tag @@ [db |-> created.db, status |-> created.status, low_stock |-> {}]
       ELSE IF built.status # 200
       THEN tag @@ [db |-> created.db, status |-> built.status, low_stock |-> {}]
       ELSE tag @@ PayIfAuto(
                AddOrderItems(
                    [created.db EXCEPT !.orders[oid].payment_method = payload.payment_method],
                    oid, built.lines),
                oid, payload.auto_pay, now)

ItemPairs(items) ==
    [k \in 1..Len(items) |->
        [quantity |-> items[k].quantity, menu_item_id |-> items[k].menu_item_id]]

\* amend_order without the check of the order's status.
amend_order_without_lock(d, oid, items) ==
    LET order == d.orders[oid]
        amended == _build_amended_lines(d, items)
        diff == _build_order_diff(_snapshot_order_items(order.items),
                                  _snapshot_amended_lines(amended.lines))
        adjusted == adjust_inventory_for_amended_order(d, oid,
                        ItemPairs(order.items), ItemPairs(amended.lines))
    IN IF amended.status # 200
       THEN [db |-> d, status |-> amended.status, low_stock |-> {}, diff |-> EmptyDiff]
       ELSE IF diff = EmptyDiff
       THEN [db |-> d, status |-> 200, low_stock |-> {}, diff |-> diff]
       ELSE IF adjusted.status # 200
       THEN [db |-> adjusted.db, status |-> adjusted.status, low_stock |-> adjusted.low_stock,
             diff |-> diff]
       ELSE [db |-> _replace_order_items(adjusted.db, oid, amended.lines),
             status |-> 200, low_stock |-> adjusted.low_stock, diff |-> diff]

\* amend_order replacing the lines without adjusting the inventory.
amend_order_without_adjustment(d, oid, items) ==
    LET order == d.orders[oid]
        amended == _build_amended_lines(d, items)
        diff == _build_order_diff(_snapshot_order_items(order.items),
                                  _snapshot_amended_lines(amended.lines))
    IN IF order.status \in {"completed", "cancelled"}
       THEN [db |-> d, status |-> 409, low_stock |-> {}, diff |-> EmptyDiff]
       ELSE IF amended.status # 200
       THEN [db |-> d, status |-> amended.status, low_stock |-> {}, diff |-> EmptyDiff]
       ELSE IF diff = EmptyDiff
       THEN [db |-> d, status |-> 200, low_stock |-> {}, diff |-> diff]
       ELSE [db |-> _replace_order_items(d, oid, amended.lines),
             status |-> 200, low_stock |-> _get_low_stock_rows(d), diff |-> diff]

amend_order(d, oid, items) ==
    LET order == d.orders[oid]
        existing_snapshot == _snapshot_order_items(order.items)
        amended == _build_amended_lines(d, items)
        amended_snapshot == _snapshot_amended_lines(amended.lines)
        diff == _build_order_diff(existing_snapshot, amended_snapshot)
        is_noop == diff = EmptyDiff
        adjusted == adjust_inventory_for_amended_order(d, oid,
                        ItemPairs(order.items), ItemPairs(amended.lines))
    IN IF order.status \in {"completed", "cancelled"}
       THEN [db |-> d, status |-> 409, low_stock |-> {}, diff |-> EmptyDiff]
       ELSE IF amended.status # 200
       THEN [db |-> d, status |-> amended.status, low_stock |-> {}, diff |-> EmptyDiff]
       ELSE IF is_noop
       THEN [db |-> d, status |-> 200, low_stock |-> {}, diff |-> diff]
       ELSE IF adjusted.status # 200
       THEN [db |-> adjusted.db, status |-> adjusted.status, low_stock |-> adjusted.low_stock,
             diff |-> diff]
       ELSE [db |-> _replace_order_items(adjusted.db, oid, amended.lines),
             status |-> 200, low_stock |-> adjusted.low_stock, diff |-> diff]

\* The transition table with ready -> cancelled added.
valid_transitions_with_late_cancel(status) ==
    CASE status = "pending" -> {"preparing", "cancelled"}
      [] status = "preparing" -> {"ready", "cancelled"}
      [] status = "ready" -> {"completed", "cancelled"}
      [] OTHER -> {}

valid_transitions(status) ==
    CASE status = "pending" -> {"preparing", "cancelled"}
      [] status = "preparing" -> {"ready", "cancelled"}
      [] status = "ready" -> {"completed"}
      [] status = "completed" -> {}
      [] status = "cancelled" -> {}
      [] OTHER -> {}

\* update_order_status marking a paid order refunded when it is cancelled.
update_order_status_refunding(d, oid, next_status, now) ==
    LET order == d.orders[oid]
        allowed == valid_transitions(order.status)
        d1 == [d EXCEPT !.orders[oid].status = next_status]
        d2 == IF next_status = "completed"
              THEN [d1 EXCEPT !.orders[oid].completed_at = now] ELSE d1
        d3 == IF next_status = "cancelled"
              THEN restore_inventory_for_cancelled_order(
                        [d2 EXCEPT !.orders[oid].payment_status =
                            IF @ = "paid" THEN "refunded" ELSE @], oid)
              ELSE d2
    IN IF next_status \notin allowed /\ next_status # order.status
       THEN [db |-> d, status |-> 400]
       ELSE [db |-> d3, status |-> 200]

update_order_status(d, oid, next_status, now) ==
    LET order == d.orders[oid]
        allowed == valid_transitions(order.status)
        d1 == [d EXCEPT !.orders[oid].status = next_status]
        d2 == IF next_status = "completed"
              THEN [d1 EXCEPT !.orders[oid].completed_at = now] ELSE d1
        d3 == IF next_status = "cancelled"
              THEN restore_inventory_for_cancelled_order(d2, oid) ELSE d2
    IN IF next_status \notin allowed /\ next_status # order.status
       THEN [db |-> d, status |-> 400]
       ELSE [db |-> d3, status |-> 200]

(***************************************************************************)
(* app/services/shift.py.  Cash amounts of a request are given in tenths   *)
(* of a cent (Mills to the cent); round(x, 2) brings them to cents.        *)
(***************************************************************************)
Mills == 10

get_open_shift(d) ==
    LET open == {s \in 1..Len(d.shift_sessions) : d.shift_sessions[s].status = "open"}
    IN IF open = {} THEN 0
       ELSE CHOOSE s \in open :
                \A t \in open : d.shift_sessions[t].opened_at <= d.shift_sessions[s].opened_at

\* open_shift adding the row whether or not a shift is open.
open_shift_without_check(d, payload, now) ==
    [db |-> [d EXCEPT !.shift_sessions = Append(@,
                [status |-> "open",
                 opened_at |-> now,
                 opening_cash |-> Round2(payload.opening_cash, Mills),
                 expected_cash |-> Round2(payload.opening_cash, Mills),
                 actual_cash |-> None,
                 cash_difference |-> None,
                 paid_order_count |-> 0,
                 total_revenue |-> 0,
                 cash_revenue |-> 0,
                 non_cash_revenue |-> 0,
                 refund_amount |-> 0,
                 closed_at |-> NullTime])],
     status |-> 200, shift_id |-> Len(d.shift_sessions) + 1]

open_shift(d, payload, now) ==
    LET existing == get_open_shift(d)
        row == [status |-> "open",
                opened_at |-> now,
                opening_cash |-> Round2(payload.opening_cash, Mills),
                expected_cash |-> Round2(payload.opening_cash, Mills),
                actual_cash |-> None,
                cash_difference |-> None,
                paid_order_count |-> 0,
                total_revenue |-> 0,
                cash_revenue |-> 0,
                non_cash_revenue |-> 0,
                refund_amount |-> 0,
                closed_at |-> NullTime]
    IN IF existing # 0
       THEN [db |-> d, status |-> 409, shift_id |-> 0]
       ELSE [db |-> [d EXCEPT !.shift_sessions = Append(@, row)],
             status |-> 200, shift_id |-> Len(d.shift_sessions) + 1]

\* sum(order.total_amount for order in orders), orders a set of order ids.
SumTotals(d, orders) ==
    SumSeq([k \in 1..Len(SetToSortedSeq(orders)) |->
                d.orders[SetToSortedSeq(orders)[k]].total_amount])

\* The summary written on the open row `sid`, from the selected orders.
CloseRow(d, sid, payload, now, paid_orders, refunded_orders) ==
    LET row == d.shift_sessions[sid]
        total_revenue == Round2(SumTotals(d, paid_orders), 1)
        cash_revenue ==
            Round2(SumTotals(d, {o \in paid_orders : d.orders[o].payment_method = "cash"}), 1)
        non_cash_revenue == Round2(total_revenue - cash_revenue, 1)
        refund_amount == Round2(SumTotals(d, refunded_orders), 1)
        expected_cash == Round2(row.opening_cash + cash_revenue, 1)
        actual_cash == Round2(payload.actual_cash, Mills)
        cash_difference == Round2(actual_cash - expected_cash, 1)
    IN [row EXCEPT !.status = "closed",
                   !.expected_cash = expected_cash,
                   !.actual_cash = actual_cash,
                   !.cash_difference = cash_difference,
                   !.paid_order_count = Cardinality(paid_orders),
                   !.total_revenue = total_revenue,
                   !.cash_revenue = cash_revenue,
                   !.non_cash_revenue = non_cash_revenue,
                   !.refund_amount = refund_amount,
                   !.closed_at = now]

\* No operation sets payment_status to "refunded"; the updated_at window of the
\* refunded orders is not tracked.
RefundedOrders(d) ==
    {o \in 1..Len(d.orders) : d.orders[o].payment_status = "refunded"}

\* close_shift selecting every order that has a paid_at, whenever it was paid.
close_shift_without_window(d, payload, now) ==
    LET sid == get_open_shift(d)
        paid_orders == {o \in 1..Len(d.orders) : d.orders[o].paid_at # NullTime}
    IN IF sid = 0
       THEN [db |-> d, status |-> 409, shift_id |-> 0]
       ELSE [db |-> [d EXCEPT !.shift_sessions[sid] =
                        CloseRow(d, sid, payload, now, paid_orders, RefundedOrders(d))],
             status |-> 200, shift_id |-> sid]

close_shift(d, payload, now) ==
    LET sid == get_open_shift(d)
        paid_orders == {o \in 1..Len(d.orders) :
                            /\ d.orders[o].paid_at # NullTime
                            /\ d.orders[o].paid_at >= d.shift_sessions[sid].opened_at
                            /\ d.orders[o].paid_at <= now
                            /\ d.orders[o].payment_status = "paid"}
    IN IF sid = 0
       THEN [db |-> d, status |-> 409, shift_id |-> 0]
       ELSE [db |-> [d EXCEPT !.shift_sessions[sid] =
                        CloseRow(d, sid, payload, now, paid_orders, RefundedOrders(d))],
             status |-> 200, shift_id |-> sid]

(***************************************************************************)
(* Login: the request limiter of main.py (every POST /api/auth/login of a  *)
(* client), the failure limiter of services/rate_limit.py (local-memory    *)
(* path, REDIS_URL unset) and the password check of security.py.  time()   *)
(* is the clock, in seconds.                                               *)
(***************************************************************************)
LOGIN_RATE_WINDOW == 60
LOGIN_RATE_MAX == 10
window_seconds == 60
max_attempts == 10
PBKDF2_ROUNDS == 210000
MAX_PBKDF2_ROUNDS == 1000000

TooManyAttempts == "Too many login attempts. Please try again later."
InvalidLogin == "Invalid username or password"

\* pbkdf2_hmac("sha256", password, salt, rounds), a digest that is equal only
\* for equal inputs.
pbkdf2_hmac(password, salt, rounds) == <<"sha256", password, salt, rounds>>

\* f"{PBKDF2_ROUNDS}${salt}${digest.hex()}", kept as its three parts.
hash_password(password, salt) ==
    <<PBKDF2_ROUNDS, salt, pbkdf2_hmac(password, salt, PBKDF2_ROUNDS)>>

verify_password(password, password_hash) ==
    IF password_hash[1] <= 0 \/ password_hash[1] > MAX_PBKDF2_ROUNDS
    THEN FALSE
    ELSE pbkdf2_hmac(password, password_hash[2], password_hash[1]) = password_hash[3]

\* username.strip().lower() on the usernames the requests carry.
StripLower ==
    ("staff1" :> "staff1") @@ (" Staff1" :> "staff1") @@ ("manager1" :> "manager1")

_resolve_client_ip(request) == request.client

_login_identity(request, username) ==
    <<_resolve_client_ip(request), StripLower[username]>>

\* [ts for ts in attempts if now - ts < window]
Recent(attempts, now, window) ==
    SelectSeq(attempts, LAMBDA ts : now - ts < window)

\* main.py login_rate_limit: the client's attempts are pruned and stored; at
\* LOGIN_RATE_MAX of them the request is answered 429, otherwise this one is
\* recorded and the request goes on to the router.
login_rate_limit(lim, client_ip, now) ==
    LET attempts == Recent(lim._login_attempts[client_ip], now, LOGIN_RATE_WINDOW)
        blocked == Len(attempts) >= LOGIN_RATE_MAX
    IN  [lim |-> [lim EXCEPT !._login_attempts[client_ip] =
                                IF blocked THEN attempts ELSE Append(attempts, now)],
         blocked |-> blocked]

_local_maybe_cleanup(lim, now) ==
    IF now - lim._last_local_cleanup < window_seconds
    THEN lim
    ELSE [lim EXCEPT !._last_local_cleanup = now,
                     !._local_attempts =
                        [id \in DOMAIN lim._local_attempts |->
                            Recent(lim._local_attempts[id], now, window_seconds)]]

\* The limiter after _prune_local_identity(identity, now); an identity without
\* attempts is the empty list (the popped key of the dict).
_prune_local_identity(lim, identity, now) ==
    [lim EXCEPT !._local_attempts[identity] = Recent(@, now, window_seconds)]

_should_block_local(lim, identity, now) ==
    LET pruned == _prune_local_identity(_local_maybe_cleanup(lim, now), identity, now)
    IN  [lim |-> pruned,
         blocked |-> Len(pruned._local_attempts[identity]) >= max_attempts]

_add_failure_local(lim, identity, now) ==
    LET pruned == _prune_local_identity(_local_maybe_cleanup(lim, now), identity, now)
    IN  [pruned EXCEPT !._local_attempts[identity] = Append(@, now)]

_reset_local(lim, identity) ==
    [lim EXCEPT !._local_attempts[identity] = <<>>]

login_without_limit(d, lim, request, now) ==
    LET identity == _login_identity(request, request.username)
    IN  IF /\ request.username \in DOMAIN d.users
           /\ d.users[request.username].is_active
           /\ verify_password(request.password, d.users[request.username].password_hash)
        THEN [status |-> 200,
              lim |-> _reset_local(lim, identity), detail |-> "", committed |-> TRUE]
        ELSE [status |-> 401,
              lim |-> _add_failure_local(lim, identity, now), detail |-> InvalidLogin, committed |-> FALSE]

\* routers/auth.py login behind the middleware: the limiter state it leaves,
\* the status and detail of the response, and whether the session was
\* committed with its auth.login audit row.
login_service(d, lim, request, now) ==
    LET identity == _login_identity(request, request.username)
        gate == login_rate_limit(lim, _resolve_client_ip(request), now)
        check == _should_block_local(gate.lim, identity, now)
    IN  IF gate.blocked
        THEN [status |-> 429, lim |-> gate.lim, detail |-> TooManyAttempts,
              committed |-> FALSE]
        ELSE IF check.blocked
        THEN [status |-> 429, lim |-> check.lim, detail |-> TooManyAttempts,
              committed |-> FALSE]
        ELSE IF \/ request.username \notin DOMAIN d.users
                \/ ~d.users[request.username].is_active
        THEN [status |-> 401,
              lim |-> _add_failure_local(check.lim, identity, now), detail |-> InvalidLogin, committed |-> FALSE]
        ELSE IF ~verify_password(request.password,
                                 d.users[request.username].password_hash)
        THEN [status |-> 401,
              lim |-> _add_failure_local(check.lim, identity, now), detail |-> InvalidLogin, committed |-> FALSE]
        ELSE [status |-> 200,
              lim |-> _reset_local(check.lim, identity), detail |-> "", committed |-> TRUE]

(***************************************************************************)
(* Concurrent payOrder requests.  Each request runs pay_order_now in its   *)
(* own session: it loads the order, pay_order marks it paid in the         *)
(* session, deduct_inventory_for_order locks the ingredient rows (not on   *)
(* sqlite), refreshes them, validates and writes the movements, and the    *)
(* router commits or rolls back.  A refresh reads the committed rows, a    *)
(* row lock is held until the session ends, and a commit writes the rows   *)
(* the session changed.                                                    *)
(***************************************************************************)
Workers == {1, 2}

Dialects == {"sqlite", "postgresql"}

IdleSession ==
    [order |-> <<>>, status |-> 0, seen |-> <<>>, order_id |-> 0, pc |-> "idle",
     began |-> 0, written |-> <<>>]

NoSessions ==
    [dialect |-> "sqlite", tx |-> [t \in Workers |-> IdleSession], locks |-> {}]

\* The rows no request locks.
_lock_nothing(dialect, ingredient_ids) == {}

\* The ingredient rows SELECT ... FOR UPDATE locks: none on sqlite.
_lock_ingredients_for_update(dialect, ingredient_ids) ==
    IF ingredient_ids = {} THEN {}
    ELSE IF dialect = "sqlite" THEN {}
    ELSE ingredient_ids

\* The rows deduct_inventory_for_order asks to lock for the order a session
\* loaded: none when pay_order or the deduction returns early.
RowsToLock(d, dialect, order) ==
    IF order.payment_status = "paid" \/ order.inventory_deducted_at # NullTime
    THEN {}
    ELSE _lock_ingredients_for_update(dialect,
            RequirementKeys(_collect_order_requirements(d, order)))

\* The database as a session sees it: the committed tables, its own copy of
\* the order and the ingredient rows as it last refreshed them.
SessionView(d, session) ==
    [d EXCEPT !.orders[session.order_id] = session.order,
              !.ingredients = session.seen]

\* What the flush of a session writes after pay_order ran on its view: the
\* order row, the stock of the ingredients it moved and the new movements.
SessionWrites(view, result) ==
    [movements |-> SubSeq(result.movements, Len(view.movements) + 1,
                          Len(result.movements)),
     order_rows |-> result.orders,
     stock |-> [i \in {j \in DOMAIN view.ingredients :
                        result.ingredients[j] # view.ingredients[j]} |->
                    result.ingredients[i].current_stock]]

\* The committed database after a session's writes.
CommitWrites(d, session) ==
    [d EXCEPT
        !.orders[session.order_id] = session.written.order_rows[session.order_id],
        !.ingredients = [i \in DOMAIN d.ingredients |->
                            IF i \in DOMAIN session.written.stock
                            THEN [d.ingredients[i] EXCEPT
                                    !.current_stock = session.written.stock[i]]
                            ELSE d.ingredients[i]],
        !.movements = d.movements \o session.written.movements]

(***************************************************************************)
(* Initial database: a catalogue of the shape seed.py creates, reduced to   *)
(* two ingredients and three menu items.                                   *)
(*   item 1: a toast at 65.00 (seed.py "Ham Egg Toast"), recipe 1 unit of  *)
(*           ingredient 1 and 2 units of ingredient 2;                     *)
(*   item 2: a drink at 40.00 (seed.py "Milk Tea"), recipe 1 unit of       *)
(*           ingredient 1, so that two items compete for one ingredient;   *)
(*   item 3: 60.00 (seed.py "Cheese Egg Toast"), deactivated through the   *)
(*           menu API and without recipe.                                  *)
(* name_rank is the position of menu_item_name in string order; item 2     *)
(* sorts before item 1 so that the name order differs from the id order.   *)
(* seed.py creates no combo rule; SeedCombos is one rule as POST           *)
(* /menu/combos stores it.  Ingredient 3 does not exist until it is        *)
(* created by POST /inventory/ingredients.                                 *)
(***************************************************************************)
SeedMenu ==
    (1 :> [is_active |-> TRUE, price |-> 6500, name_rank |-> 2]) @@
    (2 :> [is_active |-> TRUE, price |-> 4000, name_rank |-> 1]) @@
    (3 :> [is_active |-> FALSE, price |-> 6000, name_rank |-> 3])

SeedCombos ==
    (1 :> [is_active |-> TRUE, code |-> "SET60B", eligible_drinks |-> {2},
           bundle_price |-> 6000, drink_choice_count |-> 1, side_choice_count |-> 1])

SeedIngredients ==
    (1 :> [current_stock |-> 3 * Unit, reorder_level |-> Unit]) @@
    (2 :> [current_stock |-> 2 * Unit, reorder_level |-> Unit])

NewIngredientId == 3

\* The users seed.py creates outside production, two of the four.
SeedUsers ==
    ("staff1" :> [is_active |-> TRUE, password_hash |-> hash_password("staff1234", "a1")])
    @@ ("manager1" :> [is_active |-> TRUE,
                       password_hash |-> hash_password("manager1234", "b2")])

Clients == {"testclient"}

Identities == {<<c, StripLower[u]>> : c \in Clients, u \in DOMAIN StripLower}

NoAttempts ==
    [_login_attempts |-> [c \in Clients |-> <<>>],
     _last_local_cleanup |-> 0,
     _local_attempts |-> [id \in Identities |-> <<>>]]

\* What the login requests before a request were answered: every (identity,
\* status) pair so far, and per identity the times of its 401 answers that are
\* less than a window old.
NoHistory == [answers |-> {}, denied |-> [id \in Identities |-> <<>>]]

HistoryAfter(l) ==
    IF l.op # "login"
    THEN l.history
    ELSE LET id == <<l.payload[1], StripLower[l.payload[2]]>>
         IN  [answers |-> l.history.answers \cup {<<id, l.status>>},
              denied |-> [i \in Identities |->
                            Recent(IF i = id /\ l.status = 401
                                   THEN Append(l.history.denied[i], l.at)
                                   ELSE l.history.denied[i],
                                   l.at, window_seconds)]]

NoRequest ==
    [status |-> 0, low_stock |-> {}, numbers |-> <<>>, order_id |-> 0,
     attempts |-> 0, payload |-> <<>>, diff |-> EmptyDiff, lim |-> NoAttempts,
     detail |-> "", op |-> "none", history |-> NoHistory, at |-> 0,
     pre |-> <<>>, paid_from |-> <<>>, audit |-> <<>>, broadcast |-> <<>>]

Request(op, order_id, status, payload) ==
    [status |-> status, low_stock |-> {}, numbers |-> <<>>, order_id |-> order_id,
     attempts |-> 0, payload |-> payload, diff |-> EmptyDiff, lim |-> limits,
     detail |-> "", op |-> op, history |-> HistoryAfter(last), at |-> clock,
     pre |-> db, paid_from |-> last.paid_from, audit |-> <<>>, broadcast |-> <<>>]

\* The request record of a handler that reached create_audit_log(action=...)
\* and db.commit(), and then manager.broadcast({"event": ...}) where it has one.
Logged(request, committed, action, events) ==
    IF committed
    THEN [request EXCEPT !.audit = <<action>>, !.broadcast = events]
    ELSE request

\* paid_from after a request that paid order `oid` (it was unpaid in `db`): the
\* stock levels and the ledger length immediately before the payment.
PaidFrom(oid, committed) ==
    IF /\ committed
       /\ oid \in 1..Len(db'.orders)
       /\ db'.orders[oid].payment_status = "paid"
       /\ (oid \notin 1..Len(db.orders) \/ db.orders[oid].payment_status # "paid")
    THEN (oid :> [ingredients |-> db.ingredients, ledger |-> Len(db.movements)])
            @@ last.paid_from
    ELSE last.paid_from

Init ==
    /\ db = [movements |-> <<>>,
             ingredients |-> SeedIngredients,
             menu_items |-> SeedMenu,
             orders |-> <<>>,
             combo_rules |-> SeedCombos,
             shift_sessions |-> <<>>,
             users |-> SeedUsers]
    /\ clock = 1
    /\ last = NoRequest
    /\ combo_out = <<>>
    /\ limits = NoAttempts
    /\ sessions = NoSessions

(***************************************************************************)
(* Request inputs.                                                         *)
(***************************************************************************)
Line(m, q, note) == [quantity |-> q, menu_item_id |-> m, note |-> note]

ItemLists ==
    {<<Line(m, q, None)>> : m \in {1, 2}, q \in 1..MaxQty}
    \cup {<<Line(2, 1, " ")>>, <<Line(3, 1, None)>>,
          <<Line(2, 1, None), Line(2, 1, "x")>>}

ComboInput(quantity, drinks, sides) ==
    [quantity |-> quantity, combo_id |-> 1, drink_item_ids |-> drinks,
     side_item_ids |-> sides]

\* Re-submissions of the lines of a combo order, the drink's quantity changed.
ComboItemLists ==
    {<<Line(2, q, ComboNote("SET60B")), Line(1, 1, ComboNote("SET60B"))>> : q \in 1..MaxQty}

Payload(auto_pay, payment_method, items, combos) ==
    [items |-> items, payment_method |-> payment_method,
     combos |-> combos, auto_pay |-> auto_pay]

NumberPool == <<"OD1", "OD2", "OD3">>

OrderNumbers == {NumberPool[k] : k \in 1..Len(NumberPool)}

\* A generator that never collides: a number no earlier order has.
FreshNumbers == [k \in 1..max_retries |-> NumberPool[Len(db.orders) + 1]]

ManualRefs == {NoRef, <<"MANUAL_OVERRIDE", None>>}

ManualRows(d) == Cardinality({k \in 1..Len(d.movements) :
                                d.movements[k].reference \in ManualRefs})

(***************************************************************************)
(* app/routers/inventory.py                                                *)
(***************************************************************************)
create_ingredient(current_stock) ==
    /\ current_stock <= MaxStock * Unit
    /\ IF NewIngredientId \in DOMAIN db.ingredients
       THEN /\ db' = db
            /\ last' = Request("createIngredient", 0, 409, current_stock)
       ELSE /\ db' = [db EXCEPT !.ingredients = @ @@
                        (NewIngredientId :> [current_stock |-> current_stock,
                                             reorder_level |-> 0])]
            /\ last' = Logged(Request("createIngredient", 0, 201, current_stock),
                               TRUE, "inventory.ingredient.create", <<>>)
    /\ UNCHANGED <<clock, combo_out, limits, sessions>>

\* The handler assigning payload.current_stock to the row like any other field.
update_ingredient_setting_field(ingredient_id, new_stock) ==
    /\ new_stock <= MaxStock * Unit
    /\ IF ingredient_id \notin DOMAIN db.ingredients
       THEN /\ db' = db
            /\ last' = Request("updateIngredient", ingredient_id, 404, new_stock)
       ELSE IF new_stock < 0
       THEN /\ db' = db
            /\ last' = Request("updateIngredient", ingredient_id, 400, new_stock)
       ELSE /\ db' = [db EXCEPT !.ingredients[ingredient_id].current_stock = new_stock]
            /\ last' = Logged(Request("updateIngredient", ingredient_id, 200, new_stock),
                               TRUE, "inventory.ingredient.update", <<>>)
    /\ UNCHANGED <<clock, combo_out, limits, sessions>>

update_ingredient(ingredient_id, new_stock) ==
    /\ new_stock <= MaxStock * Unit
    /\ Len(db.movements) < MaxMovements
    /\ ManualRows(db) < MaxManual
    /\ IF ingredient_id \notin DOMAIN db.ingredients
       THEN /\ db' = db
            /\ last' = Request("updateIngredient", ingredient_id, 404, new_stock)
       ELSE IF new_stock < 0
       THEN /\ db' = db
            /\ last' = Request("updateIngredient", ingredient_id, 400, new_stock)
       ELSE LET old_stock == db.ingredients[ingredient_id].current_stock
                delta == new_stock - old_stock
            IN /\ db' = IF Abs(delta) > EPSILON
                        THEN create_movement(db, ingredient_id, "adjustment", delta,
                                             <<"MANUAL_OVERRIDE", None>>)
                        ELSE db
               /\ last' = Logged(Request("updateIngredient", ingredient_id, 200, new_stock),
                                  TRUE, "inventory.ingredient.update", <<>>)
    /\ UNCHANGED <<clock, combo_out, limits, sessions>>

create_stock_movement(ingredient_id, movement_type, quantity) ==
    /\ Len(db.movements) < MaxMovements
    /\ ManualRows(db) < MaxManual
    /\ \E r \in {apply_manual_movement(db, ingredient_id, movement_type, quantity)} :
          /\ \A i \in DOMAIN r.db.ingredients :
                r.db.ingredients[i].current_stock <= MaxStock * Unit
          /\ db' = IF r.status = 201 THEN r.db ELSE db
          /\ last' = Logged(Request("applyManualMovement", ingredient_id, r.status,
                                    [movement_type |-> movement_type, quantity |-> quantity]),
                             r.status = 201, "inventory.movement.create", <<>>)
    /\ UNCHANGED <<clock, combo_out, limits, sessions>>

(***************************************************************************)
(* app/routers/orders.py                                                   *)
(***************************************************************************)
\* The handler committing whatever the session holds, without the rollback.
create_new_order_without_rollback(payload, numbers) ==
    /\ \E r \in {create_order(db, payload, numbers, clock)} :
          /\ Len(r.db.movements) <= MaxMovements
          /\ db' = r.db
          /\ last' = Logged([Request("createOrder", r.order_id,
                                      IF r.status = 200 THEN 201 ELSE r.status, payload)
                               EXCEPT !.low_stock = r.low_stock, !.attempts = r.attempts,
                                      !.numbers = numbers,
                                      !.paid_from = PaidFrom(r.order_id, r.status = 200)],
                             r.status = 200, "order.create", <<"order_created">>)
    /\ UNCHANGED <<clock, combo_out, limits, sessions>>

create_new_order(payload, numbers) ==
    /\ \E r \in {create_order(db, payload, numbers, clock)} :
          /\ Len(r.db.movements) <= MaxMovements
          /\ db' = IF r.status = 200 THEN r.db ELSE db
          /\ last' = Logged([Request("createOrder", r.order_id,
                                      IF r.status = 200 THEN 201 ELSE r.status, payload)
                               EXCEPT !.low_stock = r.low_stock, !.attempts = r.attempts,
                                      !.numbers = numbers,
                                      !.paid_from = PaidFrom(r.order_id, r.status = 200)],
                             r.status = 200, "order.create", <<"order_created">>)
    /\ UNCHANGED <<clock, combo_out, limits, sessions>>

\* pay_order_now without the rollback of its except branch.
pay_order_now_without_rollback(order_id, payment_method) ==
    /\ IF order_id \notin 1..Len(db.orders)
       THEN /\ db' = db
            /\ last' = Request("payOrder", order_id, 404, payment_method)
       ELSE \E r \in {pay_order(db, order_id, payment_method, clock)} :
               /\ Len(r.db.movements) <= MaxMovements
               /\ db' = r.db
               /\ last' = Logged([Request("payOrder", order_id, r.status, payment_method)
                                    EXCEPT !.low_stock = r.low_stock,
                                           !.paid_from = PaidFrom(order_id, r.status = 200)],
                                  r.status = 200, "order.pay", <<"order_paid">>)
    /\ UNCHANGED <<clock, combo_out, limits, sessions>>

pay_order_now(order_id, payment_method) ==
    /\ IF order_id \notin 1..Len(db.orders)
       THEN /\ db' = db
            /\ last' = Request("payOrder", order_id, 404, payment_method)
       ELSE \E r \in {pay_order(db, order_id, payment_method, clock)} :
               /\ Len(r.db.movements) <= MaxMovements
               /\ db' = IF r.status = 200 THEN r.db ELSE db
               /\ last' = Logged([Request("payOrder", order_id, r.status, payment_method)
                                    EXCEPT !.low_stock = r.low_stock,
                                           !.paid_from = PaidFrom(order_id, r.status = 200)],
                                  r.status = 200, "order.pay", <<"order_paid">>)
    /\ UNCHANGED <<clock, combo_out, limits, sessions>>

amend_order_now(order_id, items) ==
    /\ IF order_id \notin 1..Len(db.orders)
       THEN /\ db' = db
            /\ last' = Request("amendOrder", order_id, 404, items)
       ELSE \E r \in {amend_order(db, order_id, items)} :
               /\ Len(r.db.movements) <= MaxMovements
               /\ db' = IF r.status = 200 /\ r.diff # EmptyDiff THEN r.db ELSE db
               /\ last' = Logged([Request("amendOrder", order_id, r.status, items)
                                    EXCEPT !.low_stock = r.low_stock, !.diff = r.diff],
                                  r.status = 200 /\ r.diff # EmptyDiff,
                                  "order.amend", <<"order_amended">>)
    /\ UNCHANGED <<clock, combo_out, limits, sessions>>

change_order_status(order_id, next_status) ==
    /\ IF order_id \notin 1..Len(db.orders)
       THEN /\ db' = db
            /\ last' = Request("updateStatus", order_id, 404, next_status)
       ELSE \E r \in {update_order_status(db, order_id, next_status, clock)} :
               /\ Len(r.db.movements) <= MaxMovements
               /\ db' = IF r.status = 200 THEN r.db ELSE db
               /\ last' = Logged(Request("updateStatus", order_id, r.status, next_status),
                                  r.status = 200, "order.status.change",
                                  <<"order_status_changed">>)
    /\ UNCHANGED <<clock, combo_out, limits, sessions>>

(***************************************************************************)
(* app/routers/shift.py                                                    *)
(***************************************************************************)
open_new_shift(opening_cash) ==
    /\ Len(db.shift_sessions) < MaxShifts \/ get_open_shift(db) # 0
    /\ \E r \in {open_shift(db, [opening_cash |-> opening_cash], clock)} :
          /\ db' = IF r.status = 200 THEN r.db ELSE db
          /\ last' = Logged(Request("openShift", r.shift_id,
                                    IF r.status = 200 THEN 201 ELSE r.status, opening_cash),
                             r.status = 200, "shift.open", <<"shift_opened">>)
    /\ UNCHANGED <<clock, combo_out, limits, sessions>>

close_current_shift(actual_cash) ==
    /\ \E r \in {close_shift(db, [actual_cash |-> actual_cash], clock)} :
          /\ db' = IF r.status = 200 THEN r.db ELSE db
          /\ last' = Logged(Request("closeShift", r.shift_id, r.status, actual_cash),
                             r.status = 200, "shift.close", <<"shift_closed">>)
    /\ UNCHANGED <<clock, combo_out, limits, sessions>>

\* POST /api/auth/login from `client`: the middleware of main.py, then the
\* login handler of routers/auth.py.  The limiters are process memory: what a
\* request leaves in them stays whatever the response.
login(client, username, password) ==
    /\ \E r \in {login_service(db, limits,
                        [password |-> password, client |-> client,
                         username |-> username], clock)} :
        /\ limits' = r.lim
        /\ last' = Logged([Request("login", 0, r.status, <<client, username, password>>)
                              EXCEPT !.detail = r.detail],
                          r.committed, "auth.login", <<>>)
    /\ UNCHANGED <<db, clock, combo_out, sessions>>

\* Seconds pass between login requests.
Sleep(seconds) ==
    /\ clock + seconds <= MaxLoginClock
    /\ clock' = clock + seconds
    /\ UNCHANGED <<db, last, combo_out, limits, sessions>>

\* POST /orders/{id}/pay in session t, step by step.
\* _load_order_or_404: the session reads the committed order.
session_load(t, order_id) ==
    /\ sessions.tx[t].pc = "idle"
    /\ order_id \in 1..Len(db.orders)
    /\ sessions' = [sessions EXCEPT !.tx[t] =
                        [IdleSession EXCEPT !.pc = "loaded", !.order_id = order_id,
                                            !.order = db.orders[order_id],
                                            !.began = Len(db.movements)]]
    /\ UNCHANGED <<db, clock, last, combo_out, limits>>

\* _lock_ingredients_for_update: waits while another session holds a row.
session_lock(t) ==
    /\ sessions.tx[t].pc = "loaded"
    /\ \E rows \in {RowsToLock(db, sessions.dialect, sessions.tx[t].order)} :
          /\ \A l \in sessions.locks : l[1] \in rows => l[2] = t
          /\ sessions' = [sessions EXCEPT
                            !.locks = @ \cup {<<i, t>> : i \in rows},
                            !.tx[t].pc = "locked"]
    /\ UNCHANGED <<db, clock, last, combo_out, limits>>

\* db.refresh(row["ingredient"]): the session reads the committed stock.
session_refresh(t) ==
    /\ sessions.tx[t].pc = "locked"
    /\ sessions' = [sessions EXCEPT !.tx[t].seen = db.ingredients,
                                     !.tx[t].pc = "refreshed"]
    /\ UNCHANGED <<db, clock, last, combo_out, limits>>

\* pay_order on what the session holds: validation and, when it passes, the
\* movements and the order's new fields, still uncommitted.
session_pay(t) ==
    /\ sessions.tx[t].pc = "refreshed"
    /\ \E view \in {SessionView(db, sessions.tx[t])} :
        \E r \in {pay_order(view, sessions.tx[t].order_id, None, clock)} :
            sessions' = [sessions EXCEPT
                            !.tx[t].status = r.status,
                            !.tx[t].written = SessionWrites(view, r.db),
                            !.tx[t].pc = "flushed"]
    /\ UNCHANGED <<db, clock, last, combo_out, limits>>

\* db.commit() after create_audit_log, or db.rollback() on the exception;
\* either ends the session and releases its locks.
session_commit(t) ==
    /\ sessions.tx[t].pc = "flushed"
    /\ db' = IF sessions.tx[t].status = 200
             THEN CommitWrites(db, sessions.tx[t])
             ELSE db
    /\ Len(db'.movements) <= MaxMovements
    /\ last' = Logged(Request("payOrder", sessions.tx[t].order_id,
                               sessions.tx[t].status, None),
                       sessions.tx[t].status = 200, "order.pay", <<"order_paid">>)
    /\ sessions' = [sessions EXCEPT
                        !.locks = {l \in @ : l[2] # t},
                        !.tx[t].pc = "done"]
    /\ UNCHANGED <<clock, combo_out, limits>>

\* Time passes between requests.
Tick ==
    /\ clock < MaxClock
    /\ clock' = clock + 1
    /\ UNCHANGED <<db, last, combo_out, limits, sessions>>

(***************************************************************************)
(* Spec: the order lifecycle (create, pay, amend, status) with the clock.  *)
(***************************************************************************)
LifecyclePayloads ==
    {Payload(a, "cash", <<Line(m[1], m[2], None)>>, <<>>) :
        a \in BOOLEAN, m \in {<<1, 1>>, <<1, MaxQty>>, <<2, 1>>}}
    \cup {Payload(FALSE, "line_pay", <<Line(2, 1, None)>>, <<>>)}

Next ==
    \/ \E p \in LifecyclePayloads :
            Len(db.orders) < MaxOrders /\ create_new_order(p, FreshNumbers)
    \/ \E o \in 1..MaxOrders, pm \in PaymentMethod \cup {None} : pay_order_now(o, pm)
    \/ \E o \in 1..MaxOrders, q \in 1..MaxQty : amend_order_now(o, <<Line(2, q, None)>>)
    \/ \E o \in 1..MaxOrders, st \in OrderStatus : change_order_status(o, st)
    \/ update_ingredient(1, 0)
    \/ Tick

Spec == Init /\ [][Next]_vars

(***************************************************************************)
(* SpecAmend: amendments of paid and unpaid orders, all item lists.        *)
(***************************************************************************)
AmendPayloads ==
    {Payload(a, "cash", items, <<>>) :
        a \in BOOLEAN, items \in {<<Line(1, 1, None)>>, <<Line(2, 1, None)>>}}
    \cup {Payload(a, "cash", <<>>, <<ComboInput(1, <<2>>, <<1>>)>>) : a \in BOOLEAN}

NextAmend ==
    \/ \E p \in AmendPayloads :
            Len(db.orders) < MaxOrders /\ create_new_order(p, FreshNumbers)
    \/ \E o \in 1..MaxOrders : pay_order_now(o, None)
    \/ \E o \in 1..MaxOrders, items \in ItemLists \cup ComboItemLists :
            amend_order_now(o, items)
    \/ \E o \in 1..MaxOrders, st \in {"preparing", "cancelled"} :
            change_order_status(o, st)

SpecAmend == Init /\ [][NextAmend]_vars

(***************************************************************************)
(* SpecInventory: ingredient administration and manual movements next to   *)
(* the order operations.                                                   *)
(***************************************************************************)
StockInputs == {-Unit, 0, Unit}

IngredientInputs == {<<1, 0>>, <<1, -Unit>>, <<1, MaxStock * Unit>>, <<2, 0>>,
                     <<2, 2 * Unit + EPSILON>>, <<NewIngredientId, Unit>>}

MovementInputs ==
    {<<1, "purchase", Unit>>, <<1, "waste", Unit>>, <<1, "adjustment", Unit>>,
     <<1, "usage", Unit>>, <<2, "waste", 2 * Unit>>, <<2, "waste", 3 * Unit>>}

NextInventory ==
    \/ \E s \in StockInputs : create_ingredient(s)
    \/ \E u \in IngredientInputs : update_ingredient(u[1], u[2])
    \/ \E m \in MovementInputs : create_stock_movement(m[1], m[2], m[3])
    \/ \E a \in BOOLEAN :
            /\ Len(db.orders) < MaxOrders
            /\ create_new_order(Payload(a, "cash", <<Line(1, 1, None)>>, <<>>),
                                FreshNumbers)
    \/ \E o \in 1..MaxOrders : pay_order_now(o, None)
    \/ \E o \in 1..MaxOrders, m \in {1, 2} : amend_order_now(o, <<Line(m, MaxQty, None)>>)
    \/ \E o \in 1..MaxOrders, st \in {"preparing", "cancelled"} :
            change_order_status(o, st)

SpecInventory == Init /\ [][NextInventory]_vars

(***************************************************************************)
(* SpecNumbers: order-number allocation; every request draws the numbers   *)
(* its generator calls return.                                             *)
(***************************************************************************)
NextNumbers ==
    \E numbers \in [1..max_retries -> OrderNumbers] :
        /\ Len(db.orders) < MaxNumbered
        /\ create_new_order(Payload(FALSE, "cash", <<Line(2, 1, None)>>, <<>>), numbers)

SpecNumbers == Init /\ [][NextNumbers]_vars

(***************************************************************************)
(* SpecCombo: _build_combo_order_lines as a function of the catalogue, the *)
(* combo rule and the selection.                                           *)
(***************************************************************************)
CatalogPrices == {0, 4000}

BundlePrices == {6000, 10000}

SeqsUpTo(S, n) == UNION {[1..k -> S] : k \in 0..n}

InitCombo ==
    /\ \E price \in [1..3 -> CatalogPrices], bundle_price \in BundlePrices,
          drinks \in 0..MaxChoices, sides \in 0..MaxChoices, active \in BOOLEAN :
            db = [movements |-> <<>>,
                  ingredients |-> SeedIngredients,
                  menu_items |-> [m \in 1..3 |->
                                    [is_active |-> (m < 3 \/ active),
                                     price |-> price[m],
                                     name_rank |-> m]],
                  orders |-> <<>>,
                  combo_rules |-> (1 :> [is_active |-> TRUE,
                                         code |-> "SET60B",
                                         eligible_drinks |-> {2, 3},
                                         bundle_price |-> bundle_price,
                                         drink_choice_count |-> drinks,
                                         side_choice_count |-> sides]),
                  shift_sessions |-> <<>>,
                  users |-> SeedUsers]
    /\ clock = 1
    /\ last = NoRequest
    /\ combo_out = <<>>
    /\ limits = NoAttempts
    /\ sessions = NoSessions

\* One evaluation of the function; combo_out keeps the selection and the result.
BuildCombo(combo_input) ==
    /\ combo_out = <<>>
    /\ combo_out' = [combo_input |-> combo_input,
                     built |-> _build_combo_order_lines(db, combo_input)]
    /\ UNCHANGED <<db, clock, last, limits, sessions>>

NextCombo ==
    \E quantity \in 1..MaxQty, drinks \in SeqsUpTo({2, 3}, MaxChoices),
       sides \in SeqsUpTo({1, 2, 3}, MaxChoices) :
            BuildCombo(ComboInput(quantity, drinks, sides))

SpecCombo == InitCombo /\ [][NextCombo]_vars

(***************************************************************************)
(* SpecShift: shifts opened and closed around orders paid in cash and      *)
(* otherwise, before and during the shift.                                 *)
(***************************************************************************)
ShiftPayloads ==
    {Payload(a, "line_pay", <<Line(2, 1, None)>>, <<>>) : a \in BOOLEAN}
    \cup {Payload(TRUE, "cash", <<Line(1, 1, None)>>, <<>>)}

\* opening_cash and actual_cash of the requests, in tenths of a cent.
OpeningCash == {100004}

ActualCash == {165000, 99996}

NextShift ==
    \/ \E p \in ShiftPayloads :
            Len(db.orders) < MaxShiftOrders /\ create_new_order(p, FreshNumbers)
    \/ \E o \in 1..MaxShiftOrders : pay_order_now(o, None)
    \/ \E c \in OpeningCash : open_new_shift(c)
    \/ \E c \in ActualCash : close_current_shift(c)
    \/ Tick

SpecShift == Init /\ [][NextShift]_vars

(***************************************************************************)
(* SpecLogin: logins of two users from one client, with right and wrong    *)
(* passwords, over more than one rate window.                              *)
(***************************************************************************)
Credentials ==
    {<<"staff1", "staff1234">>, <<"staff1", "wrong-password">>,
     <<" Staff1", "staff1234">>, <<"manager1", "manager1234">>}

NextLogin ==
    \/ \E c \in Clients, cr \in Credentials : login(c, cr[1], cr[2])
    \/ Sleep(LoginStep)

SpecLogin == Init /\ [][NextLogin]_vars

(***************************************************************************)
(* SpecRace: two payOrder requests side by side, on one order or on two,   *)
(* with and without row locks.                                             *)
(***************************************************************************)
RacePayloads ==
    {Payload(FALSE, "cash", <<Line(m, 1, None)>>, <<>>) : m \in {1, 2}}

InitRace ==
    /\ db = [movements |-> <<>>,
             ingredients |-> SeedIngredients,
             menu_items |-> SeedMenu,
             orders |-> <<>>,
             combo_rules |-> SeedCombos,
             shift_sessions |-> <<>>,
             users |-> SeedUsers]
    /\ clock = 1
    /\ last = NoRequest
    /\ combo_out = <<>>
    /\ limits = NoAttempts
    /\ \E dialect \in Dialects : sessions = [NoSessions EXCEPT !.dialect = dialect]

NextRace ==
    \/ \E p \in RacePayloads :
            Len(db.orders) < MaxRaceOrders /\ create_new_order(p, FreshNumbers)
    \/ \E t \in Workers, o \in 1..MaxRaceOrders : session_load(t, o)
    \/ \E t \in Workers : session_lock(t)
    \/ \E t \in Workers : session_refresh(t)
    \/ \E t \in Workers : session_pay(t)
    \/ \E t \in Workers : session_commit(t)

SpecRace == InitRace /\ [][NextRace]_vars

(***************************************************************************)
(* SpecShiftCancel: SpecShift with orders amended and cancelled before and *)
(* during the shift.                                                       *)
(***************************************************************************)
NextShiftCancel ==
    \/ \E p \in ShiftPayloads :
            Len(db.orders) < MaxShiftOrders /\ create_new_order(p, FreshNumbers)
    \/ \E o \in 1..MaxShiftOrders : pay_order_now(o, None)
    \/ \E o \in 1..MaxShiftOrders : amend_order_now(o, <<Line(2, MaxQty, None)>>)
    \/ \E o \in 1..MaxShiftOrders : change_order_status(o, "cancelled")
    \/ \E c \in OpeningCash : open_new_shift(c)
    \/ close_current_shift(165000)
    \/ Tick

SpecShiftCancel == Init /\ [][NextShiftCancel]_vars

(***************************************************************************)
(* Properties.  `last` describes the latest request: its operation, its    *)
(* input, its response and the database before it (last.pre).             *)
(***************************************************************************)
Stock(d, i) == d.ingredients[i].current_stock

\* The (menu item, quantity) pairs a createOrder payload asks for: the direct
\* items and every component of every combo.
RECURSIVE ComboPairs(_)
ComboPairs(combos) ==
    IF Len(combos) = 0 THEN <<>>
    ELSE LET c == Head(combos)
             ids == c.drink_item_ids \o c.side_item_ids
         IN [k \in 1..Len(ids) |-> [quantity |-> c.quantity, menu_item_id |-> ids[k]]]
                \o ComboPairs(Tail(combos))

PayloadPairs(payload) == ItemPairs(payload.items) \o ComboPairs(payload.combos)

\* Ingredients of which the pairs need more than the database holds.
ShortIngredients(d, pairs) ==
    {i \in DOMAIN d.ingredients : RequiredOf(d, pairs, i) > Stock(d, i)}

\* C1: in every reachable state every ingredient's current_stock is >= 0
\* (within the tolerance EPSILON).
C1_StockNeverNegative ==
    \A i \in DOMAIN db.ingredients : Stock(db, i) >= -EPSILON

\* C2: a createOrder with auto_pay whose items need more of some ingredient
\* than is in stock fails with 409 listing the short ingredients and leaves
\* the database as it was: no order, no order item, no movement, same stock.
C2_ShortAutoPayRejected ==
    (/\ last.op = "createOrder"
     /\ last.payload.auto_pay
     /\ last.status \notin {400, 503}
     /\ ShortIngredients(last.pre, PayloadPairs(last.payload)) # {})
    => /\ last.status = 409
       /\ last.low_stock = ShortIngredients(last.pre, PayloadPairs(last.payload))
       /\ db.orders = last.pre.orders
       /\ db.movements = last.pre.movements
       /\ db.ingredients = last.pre.ingredients

\* A createOrder with auto_pay was rejected for a shortage.
C2_Witness ==
    /\ last.op = "createOrder"
    /\ last.payload.auto_pay
    /\ last.status = 409
    /\ last.low_stock # {}

\* C3: payOrder on an order that is already paid returns an empty low-stock
\* list and leaves the order's payment fields, every stock level and the
\* ledger as they were.
C3_SecondPayChangesNothing ==
    (/\ last.op = "payOrder"
     /\ last.order_id \in 1..Len(last.pre.orders)
     /\ last.pre.orders[last.order_id].payment_status = "paid")
    => LET before == last.pre.orders[last.order_id]
           after == db.orders[last.order_id]
       IN /\ last.status = 200
          /\ last.low_stock = {}
          /\ after.payment_status = before.payment_status
          /\ after.payment_method = before.payment_method
          /\ after.paid_at = before.paid_at
          /\ after.inventory_deducted_at = before.inventory_deducted_at
          /\ db.ingredients = last.pre.ingredients
          /\ db.movements = last.pre.movements

\* A paid order was paid again, later and with another payment method, while
\* an ingredient is at its reorder level.
C3_Witness ==
    /\ last.op = "payOrder"
    /\ last.status = 200
    /\ last.order_id \in 1..Len(last.pre.orders)
    /\ last.pre.orders[last.order_id].payment_status = "paid"
    /\ last.pre.orders[last.order_id].paid_at < clock
    /\ last.payload \notin {None, last.pre.orders[last.order_id].payment_method}
    /\ _get_low_stock_rows(db) # {}

\* The ledger rows written since order `oid` was paid.
RowsSincePaid(d, oid) ==
    {k \in 1..Len(d.movements) : k > last.paid_from[oid].ledger}

\* C4: cancelling a paid order that is pending or preparing returns every
\* ingredient's stock to its value immediately before the payment, provided
\* nothing but the payment moved stock in between; cancelling it again, once
\* that cancellation has restocked, writes no movement and changes no stock.
C4_CancelRestoresStock ==
    (/\ last.op = "updateStatus"
     /\ last.payload = "cancelled"
     /\ last.order_id \in 1..Len(last.pre.orders))
    => LET oid == last.order_id
           before == last.pre.orders[oid]
       IN /\ (/\ before.status \in {"pending", "preparing"}
              /\ before.payment_status = "paid"
              /\ \A k \in RowsSincePaid(last.pre, oid) :
                    last.pre.movements[k].reference = OrderRef(before))
             => /\ last.status = 200
                /\ db.orders[oid].status = "cancelled"
                /\ \A i \in DOMAIN last.paid_from[oid].ingredients :
                        Stock(db, i) = last.paid_from[oid].ingredients[i].current_stock
          /\ (/\ before.status = "cancelled"
              /\ \E k \in 1..Len(last.pre.movements) :
                    last.pre.movements[k].reference = CancelRef(before))
             => /\ db.movements = last.pre.movements
                /\ db.ingredients = last.pre.ingredients

\* A paid order whose payment took stock was cancelled, and cancelled again.
C4_Witness ==
    /\ last.op = "updateStatus"
    /\ last.payload = "cancelled"
    /\ last.status = 200
    /\ last.order_id \in 1..Len(last.pre.orders)
    /\ last.pre.orders[last.order_id].status = "cancelled"
    /\ last.pre.orders[last.order_id].payment_status = "paid"
    /\ \E k \in 1..Len(db.movements) :
            db.movements[k].reference = CancelRef(db.orders[last.order_id])

\* One line's quantity of the snapshot `before` raised in `after`, the rest equal.
OneQuantityRaised(before, after) ==
    /\ DOMAIN after = DOMAIN before
    /\ \E key \in DOMAIN before :
        /\ after[key] > before[key]
        /\ \A other \in DOMAIN before \ {key} : after[other] = before[other]

\* Two amendOrder requests in a row on a paid, non-terminal order, the first
\* raising one line's quantity and the second restoring the original lines.
\* Unprimed `last` is the first request, the step is the second.
AmendRoundTrip ==
    /\ last.op = "amendOrder" /\ last.status = 200
    /\ last'.op = "amendOrder" /\ last'.status = 200
    /\ last'.order_id = last.order_id
    /\ last.order_id \in 1..Len(last.pre.orders)
    /\ last.pre.orders[last.order_id].payment_status = "paid"
    /\ last.pre.orders[last.order_id].status \notin {"completed", "cancelled"}
    /\ OneQuantityRaised(_snapshot_order_items(last.pre.orders[last.order_id].items),
                         _snapshot_order_items(last.payload))
    /\ _snapshot_order_items(last'.payload)
            = _snapshot_order_items(last.pre.orders[last.order_id].items)

\* C5: amending a paid, non-terminal order's quantity up and then back leaves
\* every ingredient's stock and the order's total_amount as they were before
\* the first amendment.
C5_AmendRoundTripRestores ==
    [][AmendRoundTrip =>
        /\ \A i \in DOMAIN last.pre.ingredients : Stock(db', i) = Stock(last.pre, i)
        /\ db'.orders[last.order_id].total_amount
                = last.pre.orders[last.order_id].total_amount]_vars

\* The stock half of C5 alone.
AmendRoundTripRestoresStock ==
    [][AmendRoundTrip =>
        \A i \in DOMAIN last.pre.ingredients : Stock(db', i) = Stock(last.pre, i)]_vars

\* The ledger rows the latest request wrote for ingredient i.
NewRows(i) ==
    {k \in (Len(last.pre.movements) + 1)..Len(db.movements) :
        db.movements[k].ingredient_id = i}

\* C6: a successful amendOrder on an order whose inventory was deducted moves
\* each ingredient's stock by exactly -(after_required - before_required) with
\* at most one AMEND:<number> movement per ingredient: a usage of -delta when
\* delta > 0, an adjustment of +|delta| when delta < 0, nothing when delta = 0.
C6_AmendMovesExactDelta ==
    (/\ last.op = "amendOrder"
     /\ last.status = 200
     /\ last.order_id \in 1..Len(last.pre.orders)
     /\ last.pre.orders[last.order_id].inventory_deducted_at # NullTime)
    => \A i \in DOMAIN last.pre.ingredients :
        LET before == last.pre.orders[last.order_id]
            delta == RequiredOf(db, db.orders[last.order_id].items, i)
                        - RequiredOf(last.pre, before.items, i)
            rows == NewRows(i)
        IN /\ Stock(db, i) = Stock(last.pre, i) - delta
           /\ Len(db.movements) >= Len(last.pre.movements)
           /\ \A k \in 1..Len(last.pre.movements) :
                    db.movements[k] = last.pre.movements[k]
           /\ Cardinality(rows) = IF delta = 0 THEN 0 ELSE 1
           /\ \A k \in rows :
                /\ db.movements[k].reference = AmendRef(before)
                /\ db.movements[k].quantity = -delta
                /\ db.movements[k].movement_type =
                        IF delta > 0 THEN "usage" ELSE "adjustment"

\* An amendment of a deducted order raised one ingredient's requirement and
\* lowered another's.
C6_Witness ==
    /\ last.op = "amendOrder"
    /\ last.status = 200
    /\ last.order_id \in 1..Len(last.pre.orders)
    /\ last.pre.orders[last.order_id].inventory_deducted_at # NullTime
    /\ \E i, j \in DOMAIN db.ingredients :
        /\ Stock(db, i) < Stock(last.pre, i)
        /\ Stock(db, j) > Stock(last.pre, j)

AllowedEdges ==
    {<<"pending", "preparing">>, <<"preparing", "ready">>, <<"ready", "completed">>,
     <<"pending", "cancelled">>, <<"preparing", "cancelled">>}

\* C7: an order's status changes only along the five edges of the lifecycle, so
\* never once it is completed or cancelled; updateStatus with any other pair
\* (current, next), next # current, answers 400 and changes nothing.
C7_StatusFollowsLifecycle ==
    /\ [][\A o \in 1..Len(db.orders) :
            /\ o <= Len(db'.orders)
            /\ \/ db'.orders[o].status = db.orders[o].status
               \/ <<db.orders[o].status, db'.orders[o].status>> \in AllowedEdges]_vars
    /\ [](\A o \in 1..Len(db.orders) : db.orders[o].status \in OrderStatus)
    /\ []((/\ last.op = "updateStatus"
           /\ last.order_id \in 1..Len(last.pre.orders)
           /\ last.payload # last.pre.orders[last.order_id].status
           /\ <<last.pre.orders[last.order_id].status, last.payload>> \notin AllowedEdges)
          => (last.status = 400 /\ db = last.pre))

\* A completed order was asked to go to cancelled and the request was rejected.
C7_Witness ==
    /\ last.op = "updateStatus"
    /\ last.status = 400
    /\ last.payload = "cancelled"
    /\ last.order_id \in 1..Len(db.orders)
    /\ db.orders[last.order_id].status = "completed"

\* C9: every persisted order's total_amount is the sum of its items'
\* line_total, to the cent.
C9_TotalIsSumOfLines ==
    \A o \in 1..Len(db.orders) :
        db.orders[o].total_amount =
            SumSeq([k \in 1..Len(db.orders[o].items) |-> db.orders[o].items[k].line_total])

\* An amendment replaced the lines of an order and changed its total.
C9_Witness ==
    /\ last.op = "amendOrder"
    /\ last.status = 200
    /\ last.diff # EmptyDiff
    /\ last.order_id \in 1..Len(last.pre.orders)
    /\ Len(db.orders[last.order_id].items) > 1
    /\ db.orders[last.order_id].total_amount
            # last.pre.orders[last.order_id].total_amount

BuiltLineTotals ==
    [k \in 1..Len(combo_out.built.lines) |-> combo_out.built.lines[k].line_total]

BundleTotal ==
    Round2(db.combo_rules[combo_out.combo_input.combo_id].bundle_price
                * combo_out.combo_input.quantity, 1)

ComboLinesSumToBundleWhenWeighted ==
    (/\ combo_out # <<>>
     /\ combo_out.built.status = 200
     /\ \E k \in 1..Len(combo_out.built.lines) :
            db.menu_items[combo_out.built.lines[k].menu_item_id].price > 0)
    => SumSeq(BuiltLineTotals) = BundleTotal

\* The calls of the number generator that return a number no order has yet.
FreeCalls == {k \in 1..max_retries : last.numbers[k] \notin OrderNumbersInUse(last.pre)}

\* C10: createOrder takes the first generated number that no persisted order
\* has, if one comes within max_retries calls, and succeeds with it; if all
\* max_retries numbers are taken it fails with 503 and persists no order.
\* No two persisted orders share an order_number.
C10_UniqueOrderNumbers ==
    /\ \A a, b \in 1..Len(db.orders) :
            a # b => db.orders[a].order_number # db.orders[b].order_number
    /\ last.op = "createOrder"
        => IF FreeCalls # {}
           THEN /\ last.status = 201
                /\ Len(db.orders) = Len(last.pre.orders) + 1
                /\ \A o \in 1..Len(last.pre.orders) : db.orders[o] = last.pre.orders[o]
                /\ last.order_id = Len(db.orders)
                /\ \E k \in FreeCalls :
                    /\ \A j \in FreeCalls : k <= j
                    /\ last.attempts = k
                    /\ db.orders[last.order_id].order_number = last.numbers[k]
           ELSE /\ last.status = 503
                /\ db = last.pre

\* A request whose first numbers were taken succeeded with a later one.
C10_Witness ==
    /\ last.op = "createOrder"
    /\ last.status = 201
    /\ last.attempts > 2
    /\ Len(db.orders) > 1

OpenShifts(d) == {s \in 1..Len(d.shift_sessions) : d.shift_sessions[s].status = "open"}

\* C11: at most one ShiftSession is open; openShift while a shift is open fails
\* with 409 and creates no session; closeShift with no open shift fails with 409
\* and changes nothing.
C11_AtMostOneOpenShift ==
    /\ Cardinality(OpenShifts(db)) <= 1
    /\ (last.op = "openShift" /\ OpenShifts(last.pre) # {})
        => (last.status = 409 /\ db = last.pre)
    /\ (last.op = "openShift" /\ OpenShifts(last.pre) = {})
        => /\ last.status = 201
           /\ Len(db.shift_sessions) = Len(last.pre.shift_sessions) + 1
           /\ OpenShifts(db) = {Len(db.shift_sessions)}
    /\ (last.op = "closeShift" /\ OpenShifts(last.pre) = {})
        => (last.status = 409 /\ db = last.pre)

\* A second shift is open after the first was closed, and opening once more
\* was refused.
C11_Witness ==
    /\ last.op = "openShift"
    /\ last.status = 409
    /\ Len(db.shift_sessions) = 2
    /\ db.shift_sessions[1].status = "closed"
    /\ db.shift_sessions[2].status = "open"

\* Orders of `d` that are paid with paid_at in [lo, hi].
PaidWithin(d, lo, hi) ==
    {o \in 1..Len(d.orders) :
        /\ d.orders[o].payment_status = "paid"
        /\ lo <= d.orders[o].paid_at
        /\ d.orders[o].paid_at <= hi}

Revenue(d, S) ==
    SumSeq([o \in 1..Len(d.orders) |-> IF o \in S THEN d.orders[o].total_amount ELSE 0])

\* C12: closeShift computes its summary over exactly the orders that are paid
\* with paid_at in [opened_at, now]: their number, the sum of their totals, the
\* cash part of it, the rest, expected_cash = opening_cash + cash_revenue and
\* cash_difference = actual_cash - expected_cash.
C12_CloseShiftSummary ==
    (last.op = "closeShift" /\ last.status = 200)
    => LET row == db.shift_sessions[last.order_id]
           was == last.pre.shift_sessions[last.order_id]
           S == PaidWithin(last.pre, was.opened_at, row.closed_at)
           cash == {o \in S : last.pre.orders[o].payment_method = "cash"}
       IN /\ was.status = "open"
          /\ row.status = "closed"
          /\ row.closed_at \in was.opened_at..clock
          /\ row.opening_cash = was.opening_cash
          /\ row.paid_order_count = Cardinality(S)
          /\ row.total_revenue = Revenue(last.pre, S)
          /\ row.cash_revenue = Revenue(last.pre, cash)
          /\ row.non_cash_revenue = row.total_revenue - row.cash_revenue
          /\ row.expected_cash = row.opening_cash + row.cash_revenue
          /\ row.cash_difference = row.actual_cash - row.expected_cash
          /\ db.orders = last.pre.orders

\* A shift closed over one cash order paid in its window, next to an order
\* paid before the shift was opened.
C12_Witness ==
    /\ last.op = "closeShift"
    /\ last.status = 200
    /\ Len(db.orders) = 2
    /\ \E o \in 1..2 :
            /\ db.orders[o].payment_status = "paid"
            /\ db.orders[o].paid_at < db.shift_sessions[last.order_id].opened_at
    /\ db.shift_sessions[last.order_id].paid_order_count = 1
    /\ db.shift_sessions[last.order_id].cash_revenue = 6500
    /\ db.shift_sessions[last.order_id].cash_difference # 0

\* Recipe quantity x item quantity, summed over the items of an order.
ItemsNeed(items, i) ==
    SumSeq([k \in 1..Len(items) |-> RecipeQty(items[k].menu_item_id, i) * items[k].quantity])

\* The last request paid order last.order_id, which was not paid before it.
FirstPayment ==
    /\ last.op \in {"payOrder", "createOrder"}
    /\ last.status \in {200, 201}
    /\ last.order_id \in 1..Len(db.orders)
    /\ db.orders[last.order_id].payment_status = "paid"
    /\ \/ last.order_id \notin 1..Len(last.pre.orders)
       \/ last.pre.orders[last.order_id].payment_status # "paid"

\* C13: a successful first payOrder (or createOrder with auto_pay) marks the
\* order paid, lowers each ingredient's stock by exactly the sum over the
\* order's items of recipe quantity x item quantity, records exactly one usage
\* movement ORDER:<order_number> per affected ingredient and none for the
\* others, and stamps inventory_deducted_at.
C13_PaymentDeductsRecipe ==
    FirstPayment
    => LET order == db.orders[last.order_id]
       IN /\ order.inventory_deducted_at # NullTime
          /\ order.paid_at # NullTime
          /\ \A i \in DOMAIN db.ingredients :
                LET need == ItemsNeed(order.items, i)
                IN /\ Stock(db, i) = Stock(last.pre, i) - need
                   /\ Cardinality(NewRows(i)) = IF need > 0 THEN 1 ELSE 0
                   /\ \A k \in NewRows(i) :
                        /\ db.movements[k].movement_type = "usage"
                        /\ db.movements[k].quantity = -need
                        /\ db.movements[k].reference = <<"ORDER", order.order_number>>

\* An order of two drinks was paid: two units left ingredient 1 in one movement.
C13_Witness ==
    /\ FirstPayment
    /\ last.op = "payOrder"
    /\ db.orders[last.order_id].items[1].quantity = 2
    /\ Cardinality(NewRows(1)) = 1
    /\ Stock(db, 1) = Stock(last.pre, 1) - 2 * Unit

\* The last request was an amendOrder on an existing order.
AmendOfExisting ==
    /\ last.op = "amendOrder"
    /\ last.order_id \in 1..Len(last.pre.orders)

\* C14: amendOrder on a completed or cancelled order is rejected with 409 and
\* leaves the order's items and total_amount, every stock and the movement
\* ledger unchanged.
C14_LockedOrderNotAmended ==
    (AmendOfExisting
        /\ last.pre.orders[last.order_id].status \in {"completed", "cancelled"})
    => /\ last.status = 409
       /\ db.orders = last.pre.orders
       /\ db.ingredients = last.pre.ingredients
       /\ db.movements = last.pre.movements

\* A paid, completed order of one drink was asked to become two drinks.
C14_Witness ==
    /\ AmendOfExisting
    /\ last.status = 409
    /\ last.pre.orders[last.order_id].status = "completed"
    /\ last.pre.orders[last.order_id].payment_status = "paid"
    /\ last.pre.orders[last.order_id].items[1].quantity = 1
    /\ last.payload[1].quantity = 2

\* A note with its surrounding blanks removed; a blank note is no note.
NoteOf(note) ==
    CASE note \in {None, "", " "} -> None
      [] note = " x " -> "x"
      [] OTHER -> note

\* The quantities of a list of lines, summed by menu item and normalized note.
Aggregate(lines) ==
    {<<lines[k].menu_item_id, NoteOf(lines[k].note),
       SumSeq([j \in 1..Len(lines) |->
                IF /\ lines[j].menu_item_id = lines[k].menu_item_id
                   /\ NoteOf(lines[j].note) = NoteOf(lines[k].note)
                THEN lines[j].quantity ELSE 0])>> : k \in 1..Len(lines)}

\* The last amendOrder asked for what the order already holds.
SameAsCurrent ==
    /\ AmendOfExisting
    /\ Aggregate(last.payload) = Aggregate(last.pre.orders[last.order_id].items)

NothingHappened ==
    /\ last.status = 200
    /\ last.diff = EmptyDiff
    /\ db = last.pre
    /\ last.audit = <<>>
    /\ last.broadcast = <<>>

\* C15, as stated: whenever the requested items aggregate to the order's
\* current lines, amendOrder returns an empty diff, changes nothing, writes no
\* audit row and broadcasts nothing.
C15_SameItemsIsNoOp == SameAsCurrent => NothingHappened

\* C15, amended: the same for an order that is neither completed nor cancelled
\* and a request naming active menu items only; on a completed or cancelled
\* order the call is rejected with 409 instead (and still changes nothing).
C15_SameItemsIsNoOpUnlessLocked ==
    /\ (/\ SameAsCurrent
        /\ last.pre.orders[last.order_id].status \notin {"completed", "cancelled"}
        /\ \A k \in 1..Len(last.payload) :
                last.pre.menu_items[last.payload[k].menu_item_id].is_active)
        => NothingHappened
    /\ (/\ SameAsCurrent
        /\ last.pre.orders[last.order_id].status \in {"completed", "cancelled"})
        => (last.status = 409 /\ db = last.pre /\ last.audit = <<>> /\ last.broadcast = <<>>)

\* A paid order's line was sent again with a blank note in place of none.
C15_Witness ==
    /\ SameAsCurrent
    /\ NothingHappened
    /\ last.payload[1].note = " "
    /\ last.pre.orders[last.order_id].items[1].note = None
    /\ last.pre.orders[last.order_id].payment_status = "paid"

\* The signed quantities of the movement rows of ingredient i, summed.
LedgerSum(d, i) ==
    SumSeq([k \in 1..Len(d.movements) |->
                IF d.movements[k].ingredient_id = i THEN d.movements[k].quantity ELSE 0])

\* C16: every ingredient's current_stock is its stock at creation plus the sum
\* of the signed quantities of its movement rows: the seeded ingredients hold
\* their seed stock plus their ledger sum, every step keeps the ledger's
\* earlier rows and changes each stock by the sum of the rows it appends, and a
\* successful updateIngredient with value v leaves the stock at v (within
\* EPSILON) by appending one adjustment row of v - old, or no row at all when
\* the stock stays as it was.
C16_StockIsLedgerSum ==
    /\ [](\A i \in DOMAIN SeedIngredients :
            Stock(db, i) = SeedIngredients[i].current_stock + LedgerSum(db, i))
    /\ [][/\ Len(db'.movements) >= Len(db.movements)
          /\ SubSeq(db'.movements, 1, Len(db.movements)) = db.movements
          /\ \A i \in DOMAIN db.ingredients :
                Stock(db', i) - Stock(db, i) = LedgerSum(db', i) - LedgerSum(db, i)
          /\ \A i \in DOMAIN db'.ingredients \ DOMAIN db.ingredients :
                LedgerSum(db', i) = 0]_vars
    /\ []((last.op = "updateIngredient" /\ last.status = 200)
            => LET i == last.order_id
                   old == Stock(last.pre, i)
               IN /\ Abs(Stock(db, i) - last.payload) <= EPSILON
                  /\ \A j \in DOMAIN db.ingredients \ {i} : NewRows(j) = {}
                  /\ IF Stock(db, i) = old
                     THEN NewRows(i) = {}
                     ELSE /\ Cardinality(NewRows(i)) = 1
                          /\ \A k \in NewRows(i) :
                                /\ db.movements[k].movement_type = "adjustment"
                                /\ db.movements[k].quantity = last.payload - old)

\* A created ingredient was given a stock by updateIngredient: its ledger holds
\* the one adjustment from its creation stock.
C16_Witness ==
    /\ last.op = "updateIngredient"
    /\ last.status = 200
    /\ last.order_id = NewIngredientId
    /\ Cardinality(NewRows(NewIngredientId)) = 1
    /\ Stock(last.pre, NewIngredientId) = 0
    /\ Stock(db, NewIngredientId) = Unit

\* The identity of the last login request, the valid credentials of the seeded
\* users, and how many 401 answers that identity was given less than a window
\* before the request.
LoginIdentity == <<last.payload[1], StripLower[last.payload[2]]>>

ValidLogins == {<<"staff1", "staff1234">>, <<"manager1", "manager1234">>}

LoginIsValid == <<last.payload[2], last.payload[3]>> \in ValidLogins

FailuresInWindow ==
    Len(SelectSeq(last.history.denied[LoginIdentity],
                  LAMBDA ts : last.at - ts < window_seconds))

\* C17: after 10 failed login attempts of a client and username within the
\* rate window, the next attempt of that client and username is answered 429
\* "Too many login attempts. Please try again later.", commits nothing, and
\* is answered so whatever the password it carries.
C17_TenFailuresThenBlocked ==
    (last.op = "login" /\ FailuresInWindow >= 10)
        => /\ last.status = 429
           /\ last.detail = "Too many login attempts. Please try again later."
           /\ last.audit = <<>>
           /\ db = last.pre

\* The eleventh attempt carried the right password and was still refused.
C17_Witness ==
    /\ last.op = "login"
    /\ FailuresInWindow >= 10
    /\ LoginIsValid
    /\ last.status = 429

\* C18: successful logins do not count toward the limit: a login with valid
\* credentials that follows nothing but successful logins of the same client
\* and username is answered 200, however many they were.
C18_SuccessfulLoginsNotCounted ==
    (/\ last.op = "login"
     /\ LoginIsValid
     /\ last.history.answers \subseteq {<<LoginIdentity, 200>>})
        => last.status = 200

\* C19: the limit is isolated by username: a first login with valid credentials
\* is not answered 429 when every earlier login of the client was a failed
\* attempt for another username.
C19_LimitIsolatedByUsername ==
    (/\ last.op = "login"
     /\ LoginIsValid
     /\ \A a \in last.history.answers :
            /\ a[1][1] = LoginIdentity[1]
            /\ a[1][2] # LoginIdentity[2]
            /\ a[2] # 200)
        => last.status # 429

\* The rise the last amendOrder asks of ingredient i over what the order's
\* stored lines required, and the ingredients whose rise exceeds (beyond the
\* tolerance EPSILON) the stock they had before the request.
Rise(i) ==
    ItemsNeed(last.payload, i) - ItemsNeed(last.pre.orders[last.order_id].items, i)

Unaffordable ==
    {i \in DOMAIN last.pre.ingredients :
        Rise(i) > 0 /\ Rise(i) > Stock(last.pre, i) + EPSILON}

AmendBeyondStock ==
    /\ AmendOfExisting
    /\ last.pre.orders[last.order_id].inventory_deducted_at # NullTime
    /\ Unaffordable # {}

\* The response is the 409 of InsufficientInventory, whose detail lists the
\* short ingredients, and the database is as it was: no movement for any
\* ingredient, every stock, and the order's lines and total_amount.
RefusedForStock ==
    /\ last.status = 409
    /\ last.low_stock = Unaffordable
    /\ db.movements = last.pre.movements
    /\ db.ingredients = last.pre.ingredients
    /\ db.orders = last.pre.orders
    /\ last.audit = <<>>
    /\ last.broadcast = <<>>

\* C20 as stated: an amendOrder on an inventory-deducted order that raises the
\* requirement of an ingredient by more than its stock fails with
\* InsufficientInventory and mutates nothing.
C20_AmendBeyondStockRefused == AmendBeyondStock => RefusedForStock

\* C20, amended: the same on an order that is neither completed nor cancelled
\* (on those the request fails with OrderLocked, and also mutates nothing).
C20_AmendBeyondStockRefusedUnlessLocked ==
    (AmendBeyondStock
        /\ last.pre.orders[last.order_id].status \notin {"completed", "cancelled"})
    => RefusedForStock

\* A refused amendment that would have lowered the requirement of one
\* ingredient while raising another beyond its stock.
C20_Witness ==
    /\ AmendBeyondStock
    /\ last.pre.orders[last.order_id].status \notin {"completed", "cancelled"}
    /\ last.status = 409
    /\ \E i \in DOMAIN last.pre.ingredients : Rise(i) < 0
    /\ db = last.pre

\* The last amendOrder asks no more of any ingredient than the stored lines.
AmendWithoutRise ==
    /\ AmendOfExisting
    /\ \A i \in DOMAIN last.pre.ingredients : Rise(i) <= 0

\* C21: an amendOrder whose items require no more of any ingredient than the
\* previous items is never answered with the 409 that lists shortages,
\* whatever the stock levels are.
C21_ShrinkingAmendNeverShort ==
    AmendWithoutRise => ~(last.status = 409 /\ last.low_stock # {})

\* An accepted amendment of an inventory-deducted order that lowered one
\* requirement and still needs an ingredient whose stock was 0.
C21_Witness ==
    /\ AmendWithoutRise
    /\ last.pre.orders[last.order_id].inventory_deducted_at # NullTime
    /\ last.status = 200
    /\ last.diff # EmptyDiff
    /\ \E i \in DOMAIN last.pre.ingredients : Rise(i) < 0
    /\ \E i \in DOMAIN last.pre.ingredients :
            ItemsNeed(last.payload, i) > 0 /\ Stock(last.pre, i) = 0

\* The last request was a payOrder on an unpaid order and was refused for
\* missing stock.
PaymentRefused ==
    /\ last.op = "payOrder"
    /\ last.order_id \in 1..Len(last.pre.orders)
    /\ last.pre.orders[last.order_id].payment_status = "unpaid"
    /\ last.status = 409

\* C22: a payOrder on an unpaid order that fails in the inventory deduction
\* leaves the persisted order as it was (unpaid, paid_at and
\* inventory_deducted_at null, payment_method as before) and persists no
\* movement and no audit row.
C22_FailedPaymentRolledBack ==
    PaymentRefused
        => LET o == db.orders[last.order_id]
               was == last.pre.orders[last.order_id]
           IN /\ o = was
              /\ o.payment_status = "unpaid"
              /\ o.paid_at = NullTime
              /\ o.inventory_deducted_at = NullTime
              /\ o.payment_method = was.payment_method
              /\ db.movements = last.pre.movements
              /\ db.ingredients = last.pre.ingredients
              /\ last.audit = <<>>
              /\ last.low_stock # {}

\* A refused payment that named a payment method other than the order's.
C22_Witness ==
    /\ PaymentRefused
    /\ last.payload \in PaymentMethod
    /\ last.payload # last.pre.orders[last.order_id].payment_method
    /\ db.orders[last.order_id].payment_method # last.payload

\* The last request was an applyManualMovement on an existing ingredient; the
\* delta its type and quantity stand for.
ManualOnExisting ==
    /\ last.op = "applyManualMovement"
    /\ last.order_id \in DOMAIN last.pre.ingredients

ManualDelta ==
    LET q == last.payload.quantity
        magnitude == IF q < 0 THEN -q ELSE q
    IN CASE last.payload.movement_type = "purchase" -> magnitude
         [] last.payload.movement_type = "waste" -> -magnitude
         [] OTHER -> q

\* C23: applyManualMovement applies +|quantity| for a purchase, -|quantity| for
\* a waste and the quantity as given for an adjustment, in one movement of
\* that type; a usage is answered 400, a projected stock below -EPSILON is
\* answered 409, and both leave the ledger and every stock as they were.
C23_ManualMovementDelta ==
    ManualOnExisting
        => LET i == last.order_id
           IN IF last.payload.movement_type = "usage"
              THEN last.status = 400 /\ db = last.pre
              ELSE IF Stock(last.pre, i) + ManualDelta < -EPSILON
              THEN last.status = 409 /\ db = last.pre
              ELSE /\ last.status = 201
                   /\ Stock(db, i) = Stock(last.pre, i) + ManualDelta
                   /\ Len(db.movements) = Len(last.pre.movements) + 1
                   /\ db.movements[Len(db.movements)].ingredient_id = i
                   /\ db.movements[Len(db.movements)].quantity = ManualDelta
                   /\ db.movements[Len(db.movements)].movement_type
                        = last.payload.movement_type
                   /\ \A j \in DOMAIN db.ingredients \ {i} :
                        Stock(db, j) = Stock(last.pre, j)

\* A waste larger than the stock was refused.
C23_Witness ==
    /\ ManualOnExisting
    /\ last.payload.movement_type = "waste"
    /\ Stock(last.pre, last.order_id) + ManualDelta < -EPSILON
    /\ last.status = 409
    /\ db = last.pre

\* Two sessions hold different orders that together need more of some
\* ingredient than was in stock, each needing some of it; a session committed
\* a deduction when it ended with 200 and wrote movements.
Session(t) == sessions.tx[t]

Contested ==
    /\ \A t \in Workers : Session(t).pc # "idle"
    /\ Session(1).order_id # Session(2).order_id
    /\ \E i \in DOMAIN SeedIngredients :
          /\ \A t \in Workers : ItemsNeed(Session(t).order.items, i) > 0
          /\ ItemsNeed(Session(1).order.items, i) + ItemsNeed(Session(2).order.items, i)
                > SeedIngredients[i].current_stock

CommittedDeduction(t) ==
    /\ Session(t).pc = "done"
    /\ Session(t).status = 200
    /\ Session(t).written.movements # <<>>

\* C24: with the ingredient rows locked for update (any dialect but sqlite),
\* of two concurrent payOrder transactions on different orders that need an
\* ingredient whose stock suffices for only one, at most one commits a
\* deduction, and no committed current_stock is negative.
C24_LockedPaymentsDoNotOversell ==
    sessions.dialect # "sqlite"
        => /\ \A i \in DOMAIN db.ingredients : Stock(db, i) >= 0
           /\ Contested => ~(\A t \in Workers : CommittedDeduction(t))

\* With the lock: both sessions loaded their orders before anything was
\* committed, one committed its deduction and the other was refused.
C24_Witness ==
    /\ sessions.dialect # "sqlite"
    /\ Contested
    /\ \A t \in Workers : Session(t).pc = "done" /\ Session(t).began = 0
    /\ \E t \in Workers : CommittedDeduction(t)
    /\ \E t \in Workers : Session(t).status = 409

\* Without the lock (sqlite): both sessions validated against the same stock
\* and both committed their deductions.
C24_RaceWithoutLock ==
    /\ sessions.dialect = "sqlite"
    /\ Contested
    /\ \A t \in Workers : CommittedDeduction(t)
    /\ Session(1).seen = Session(2).seen

\* The signed quantities of ingredient i in the movements that reference order
\* `order` with one of the `kinds` (ORDER, AMEND, CANCEL), summed.
OrderLedgerSum(d, order, kinds, i) ==
    SumSeq([k \in 1..Len(d.movements) |->
                IF /\ d.movements[k].ingredient_id = i
                   /\ d.movements[k].reference
                        \in {<<kind, order.order_number>> : kind \in kinds}
                THEN d.movements[k].quantity
                ELSE 0])

\* C25: every cancelled order has zero net stock consumption: per ingredient,
\* the movements referencing it (ORDER, AMEND, CANCEL) sum to 0.
C25_CancelledOrderConsumesNothing ==
    \A o \in 1..Len(db.orders) :
        db.orders[o].status = "cancelled"
            => \A i \in DOMAIN db.ingredients :
                    OrderLedgerSum(db, db.orders[o], {"ORDER", "AMEND", "CANCEL"}, i) = 0

\* C26: for every order whose inventory was deducted and that is not
\* cancelled, and every ingredient, minus the sum of the movements that
\* reference the order as ORDER:<n> or AMEND:<n> equals what the order's
\* current items require of the ingredient.
C26_ConsumptionMatchesLines ==
    \A o \in 1..Len(db.orders) :
        (db.orders[o].inventory_deducted_at # NullTime /\ db.orders[o].status # "cancelled")
            => \A i \in DOMAIN db.ingredients :
                    -OrderLedgerSum(db, db.orders[o], {"ORDER", "AMEND"}, i)
                        = ItemsNeed(db.orders[o].items, i)

\* A paid order was amended to different requirements and its ledger holds an
\* AMEND movement next to the ORDER ones.
C26_Witness ==
    /\ AmendOfExisting
    /\ last.status = 200
    /\ last.pre.orders[last.order_id].inventory_deducted_at # NullTime
    /\ db.orders[last.order_id].status # "cancelled"
    /\ \E i \in DOMAIN last.pre.ingredients : Rise(i) # 0
    /\ \E k \in 1..Len(db.movements) :
            db.movements[k].reference = <<"AMEND", db.orders[last.order_id].order_number>>

\* C27: whatever the interleaving of two payOrder requests on one unpaid
\* order, its inventory is deducted at most once: per ingredient at most one
\* committed usage movement references ORDER:<order_number>.
C27_SameOrderDeductedOnce ==
    \A o \in 1..Len(db.orders) : \A i \in DOMAIN db.ingredients :
        Cardinality({k \in 1..Len(db.movements) :
                        /\ db.movements[k].ingredient_id = i
                        /\ db.movements[k].movement_type = "usage"
                        /\ db.movements[k].reference
                                = <<"ORDER", db.orders[o].order_number>>}) <= 1

\* C28: in every committed state an order is paid exactly when its
\* inventory_deducted_at is set and exactly when its paid_at is set, and no
\* later request changes or clears either timestamp once it is set.
C28_PaidIffDeductedIffStamped ==
    /\ [](\A o \in 1..Len(db.orders) :
            /\ (db.orders[o].payment_status = "paid")
                    <=> (db.orders[o].inventory_deducted_at # NullTime)
            /\ (db.orders[o].payment_status = "paid")
                    <=> (db.orders[o].paid_at # NullTime))
    /\ [][\A o \in 1..Len(db.orders) :
            /\ o \in 1..Len(db'.orders)
            /\ db.orders[o].inventory_deducted_at # NullTime
                    => db'.orders[o].inventory_deducted_at
                            = db.orders[o].inventory_deducted_at
            /\ db.orders[o].paid_at # NullTime
                    => db'.orders[o].paid_at = db.orders[o].paid_at]_vars

\* payOrder was answered 200 on an order paid at an earlier time.
C28_Witness ==
    /\ last.op = "payOrder"
    /\ last.status = 200
    /\ last.order_id \in 1..Len(last.pre.orders)
    /\ last.pre.orders[last.order_id].payment_status = "paid"
    /\ last.at > last.pre.orders[last.order_id].paid_at
    /\ db.orders[last.order_id].paid_at = last.pre.orders[last.order_id].paid_at

\* C29: completed_at is set exactly when the order's status is completed, and
\* once an order is completed no later request changes its completed_at,
\* updateStatus(completed) on the completed order included.
C29_CompletedAtStampedOnce ==
    /\ [](\A o \in 1..Len(db.orders) :
            (db.orders[o].completed_at # NullTime) <=> (db.orders[o].status = "completed"))
    /\ [][\A o \in 1..Len(db.orders) :
            db.orders[o].status = "completed"
                => /\ o \in 1..Len(db'.orders)
                   /\ db'.orders[o].completed_at = db.orders[o].completed_at]_vars

\* The first half alone: completed_at is set exactly on completed orders.
CompletedAtIffCompleted ==
    \A o \in 1..Len(db.orders) :
        (db.orders[o].completed_at # NullTime) <=> (db.orders[o].status = "completed")

\* The orders with a paid_at in [lo, hi], whatever their status.
StampedWithin(d, lo, hi) ==
    {o \in 1..Len(d.orders) :
        /\ d.orders[o].paid_at # NullTime
        /\ lo <= d.orders[o].paid_at
        /\ d.orders[o].paid_at <= hi}

\* C30: no order ever has payment_status refunded (a cancelled paid order
\* stays paid), every closed shift has refund_amount 0, and a closeShift
\* counts every order paid inside its window, the cancelled ones included,
\* in total_revenue and expected_cash.
C30_NeverRefunded ==
    /\ \A o \in 1..Len(db.orders) : db.orders[o].payment_status \in {"unpaid", "paid"}
    /\ \A sh \in 1..Len(db.shift_sessions) :
            db.shift_sessions[sh].status = "closed"
                => db.shift_sessions[sh].refund_amount = 0
    /\ (last.op = "closeShift" /\ last.status = 200)
            => LET row == db.shift_sessions[last.order_id]
                   S == StampedWithin(last.pre, row.opened_at, row.closed_at)
                   cash == {o \in S : last.pre.orders[o].payment_method = "cash"}
               IN /\ row.total_revenue = Revenue(last.pre, S)
                  /\ row.expected_cash = row.opening_cash + Revenue(last.pre, cash)

\* A shift was closed after a cash order paid inside it had been cancelled:
\* the order is still paid and its total is in the shift's revenue.
C30_Witness ==
    /\ last.op = "closeShift"
    /\ last.status = 200
    /\ \E o \in 1..Len(db.orders) :
            LET row == db.shift_sessions[last.order_id]
            IN /\ db.orders[o].status = "cancelled"
               /\ db.orders[o].payment_status = "paid"
               /\ db.orders[o].payment_method = "cash"
               /\ db.orders[o].paid_at \in row.opened_at..row.closed_at
               /\ row.total_revenue >= db.orders[o].total_amount
               /\ row.expected_cash >= row.opening_cash + db.orders[o].total_amount
               /\ row.refund_amount = 0

====
